---- MODULE Spec2Model ----
(***************************************************************************)
(* The authorization engine of pguia/iam: the relational store as the      *)
(* repositories see it (soft-deleted rows are invisible to every read),    *)
(* the decision cache, the permission evaluator and the IAM service        *)
(* facade.                                                                 *)
(***************************************************************************)
EXTENDS Integers, Sequences, FiniteSets, TLC

(***************************************************************************)
(* Bounds of the model.                                                    *)
(***************************************************************************)
MaxRes == 3
MaxRoles == 2
MaxBindings == 2
MaxVersion == 2
MaxTime == 2
TTL == 1
MaxSize == 2
MaxOps == 3
MaxFail == 3

(***************************************************************************)
(* Values the callers use.                                                 *)
(***************************************************************************)
PermNames == {"read", "write"}
Principals == {"user:alice", "user:bob"}
NoCond == "<nil>"
Conds == {NoCond, "request.time < x"}
Contexts == {"ctx"}

(***************************************************************************)
(* JSON text of Binding.Members, as a sequence of tokens.                  *)
(***************************************************************************)
LBr == <<"p", "[">>
RBr == <<"p", "]">>
Comma == <<"p", ",">>
Null == <<"n", "null">>
Num == <<"d", "1">>
Str(s) == <<"s", s>>

RECURSIVE MarshalElems(_)
MarshalElems(ms) ==
  IF ms = <<>> THEN <<>>
  ELSE IF Len(ms) = 1 THEN <<Str(ms[1])>>
  ELSE <<Str(ms[1]), Comma>> \o MarshalElems(Tail(ms))

\* json.Marshal(members) of a non-nil []string
Marshal(ms) == <<LBr>> \o MarshalElems(ms) \o <<RBr>>

DecodeErr == [err |-> TRUE, members |-> <<>>]

\* the elements of an array being decoded into []string: a string is taken
\* as it is, null leaves the element at its zero value "", anything else is
\* an error
RECURSIVE DecodeElems(_, _)
DecodeElems(ts, acc) ==
  IF ts = <<>> THEN DecodeErr
  ELSE IF ts[1][1] \notin {"s", "n"} THEN DecodeErr
  ELSE LET v == IF ts[1][1] = "s" THEN ts[1][2] ELSE "" IN
       IF Len(ts) = 1 THEN [err |-> FALSE, members |-> Append(acc, v)]
       ELSE IF ts[2] = Comma
            THEN DecodeElems(SubSeq(ts, 3, Len(ts)), Append(acc, v))
            ELSE DecodeErr

\* Binding.GetMembers: json.Unmarshal(b.Members, &members)
GetMembers(raw) ==
  IF raw = <<Null>> THEN [err |-> FALSE, members |-> <<>>]
  ELSE IF Len(raw) >= 2 /\ raw[1] = LBr /\ raw[Len(raw)] = RBr
       THEN IF Len(raw) = 2 THEN [err |-> FALSE, members |-> <<>>]
            ELSE DecodeElems(SubSeq(raw, 2, Len(raw) - 1), <<>>)
       ELSE DecodeErr

RECURSIVE ScanMembers(_, _)
ScanMembers(members, principal) ==
  IF members = <<>> THEN FALSE
  ELSE IF Head(members) = principal THEN TRUE
  ELSE ScanMembers(Tail(members), principal)

\* a HasMember whose test of the decoding error is inverted
HasMemberNever(raw, principal) ==
  LET got == GetMembers(raw) IN
  IF ~got.err THEN FALSE ELSE ScanMembers(got.members, principal)

\* Binding.HasMember
HasMember(raw, principal) ==
  LET got == GetMembers(raw) IN
  IF got.err THEN FALSE ELSE ScanMembers(got.members, principal)

\* a role that grants whatever is asked once it holds any permission
HasPermissionAnyName(perms, permissionName) == perms # {}

\* Role.HasPermission
HasPermission(perms, permissionName) ==
  \E perm \in perms : perm = permissionName

(***************************************************************************)
(* State.                                                                  *)
(***************************************************************************)
VARIABLES
  resources,   \* rows of table resources, by id: [parent, live]
  roles,       \* rows of table roles, by id: [perms, live]
  policies,    \* rows of table policies, by id: [res, version, etag, live]
  bindings,    \* rows of table bindings, by id: [policy, role, members, cond, live]
  cacheKind,   \* the cache variant: "none" (noopCache), "memory" (cacheService),
               \* "disabled" (cacheService with enabled = false), "redis" (redisCache)
  maxSize,     \* cfg.MaxSize of the cacheService
  redisUp,     \* whether the commands of the redis client succeed
  cache,       \* cacheService.data: key -> [value, expiration]
  now,         \* time.Now()
  last,        \* what the last facade call was and what it returned
  ops,         \* how many facade calls were made
  inflight     \* the facade calls that have begun and not returned

vars == <<resources, roles, policies, bindings, cacheKind, maxSize, redisUp, cache,
          now, last, ops, inflight>>
store == <<resources, roles, policies, bindings>>

EmptyMap == [k \in {} |-> 0]

(***************************************************************************)
(* Repository reads.  gorm adds "deleted_at IS NULL" to every query it     *)
(* builds, so a soft-deleted row is never returned.                        *)
(***************************************************************************)
ResourceRow(id) == id \in 1..Len(resources)

\* a lookup that also finds soft-deleted rows
ResourceGetByIDUnscoped(id) == id \in 1..Len(resources)

\* resourceRepository.GetByID: TRUE when a live row is found
ResourceGetByID(id) == ResourceRow(id) /\ resources[id].live

\* an ancestors query that lists the root first
RECURSIVE AncestorsRootFirst(_)
AncestorsRootFirst(id) ==
  LET parent == resources[id].parent IN
  IF parent = 0 THEN <<>>
  ELSE IF ~resources[parent].live THEN <<>>
  ELSE AncestorsRootFirst(parent) \o <<parent>>

\* the recursive part of the ancestors query: join on parent_id, live rows only
RECURSIVE AncestorsFrom(_)
AncestorsFrom(id) ==
  LET parent == resources[id].parent IN
  IF parent = 0 THEN <<>>
  ELSE IF ~resources[parent].live THEN <<>>
  ELSE <<parent>> \o AncestorsFrom(parent)

\* an ancestors query that also returns the children of the resource
GetAncestorsAndChildren(id) ==
  IF ResourceRow(id)
  THEN AncestorsFrom(id)
       \o SelectSeq([i \in 1..Len(resources) |-> i],
                    LAMBDA i : resources[i].live /\ resources[i].parent = id)
  ELSE <<>>

\* resourceRepository.GetAncestors: the anchor row is selected by id alone
GetAncestors(id) == IF ResourceRow(id) THEN AncestorsFrom(id) ELSE <<>>

\* policyRepository.GetByResourceID: the id of the live policy row, 0 for nil
PolicyGetByResourceID(resourceID) ==
  IF \E i \in 1..Len(policies) : policies[i].live /\ policies[i].res = resourceID
  THEN CHOOSE i \in 1..Len(policies) : policies[i].live /\ policies[i].res = resourceID
  ELSE 0

\* Preload("Bindings"): the live bindings of a policy
PolicyBindings(policyID) ==
  SelectSeq([i \in 1..Len(bindings) |-> i],
            LAMBDA i : bindings[i].live /\ bindings[i].policy = policyID)

\* Preload("Bindings.Role"): nil when the role row is soft-deleted
RoleLoaded(roleID) == roleID \in 1..Len(roles) /\ roles[roleID].live

ResIdString(id) == ToString(id)
RoleName(roleID) == "roles/" \o ToString(roleID)

(***************************************************************************)
(* Decision cache.                                                         *)
(***************************************************************************)
\* GenerateCacheKey
GenerateCacheKey(principal, resourceID, permission) ==
  "perm:" \o principal \o ":" \o resourceID \o ":" \o permission

Miss == [found |-> FALSE, value |-> FALSE]

\* a decoder that takes every text but "false" and "null" as true
DecodeBoolTruthy(raw) ==
  [err |-> FALSE, value |-> raw \notin {"false", "null"}]

\* json.Unmarshal([]byte(val), &result) with result a bool, in redisCache.Get
DecodeBool(raw) ==
  IF raw = "true" THEN [err |-> FALSE, value |-> TRUE]
  ELSE IF raw \in {"false", "null"} THEN [err |-> FALSE, value |-> FALSE]
  ELSE [err |-> TRUE, value |-> FALSE]

\* json.Marshal(value) of a bool, in redisCache.Set
EncodeBool(value) == IF value THEN "true" ELSE "false"

\* redisCache.Get: a failing command and a value that does not decode are
\* misses; the server has dropped a key whose time to live has elapsed
RedisGet(key) ==
  IF ~redisUp THEN Miss
  ELSE IF key \notin DOMAIN cache THEN Miss
  ELSE IF now >= cache[key].expiration THEN Miss
  ELSE IF DecodeBool(cache[key].value).err THEN Miss
  ELSE [found |-> TRUE, value |-> DecodeBool(cache[key].value).value]

\* a Get that does not look at the expiration of the entry
CacheGetNoExpiry(key) ==
  IF key \notin DOMAIN cache THEN Miss
  ELSE [found |-> TRUE, value |-> cache[key].value]

\* cacheService.Get, noopCache.Get, redisCache.Get
CacheGet(key) ==
  IF cacheKind \in {"none", "disabled"} THEN Miss
  ELSE IF cacheKind = "redis" THEN RedisGet(key)
  ELSE IF key \notin DOMAIN cache THEN Miss
  ELSE IF now > cache[key].expiration THEN Miss
  ELSE [found |-> TRUE, value |-> cache[key].value]

\* cacheService.evictExpired
evictExpired(data) ==
  [k \in {j \in DOMAIN data : ~(now > data[j].expiration)} |-> data[k]]

\* redisCache.Set: the command is sent and its result is not looked at
RedisSet(data, key, value) ==
  IF ~redisUp THEN data
  ELSE [k \in DOMAIN data \cup {key} |->
          IF k = key THEN [value |-> EncodeBool(value), expiration |-> now + TTL]
          ELSE data[k]]

\* cacheService.Set with the map locked: the map at cfg.MaxSize is swept,
\* and emptied when it is still at cfg.MaxSize; then the entry is stored
MemorySet(data, key, value) ==
  LET swept == IF Cardinality(DOMAIN data) >= maxSize
               THEN evictExpired(data) ELSE data
      room  == IF Cardinality(DOMAIN swept) >= maxSize
               THEN EmptyMap ELSE swept
  IN [k \in DOMAIN room \cup {key} |->
        IF k = key THEN [value |-> value, expiration |-> now + TTL]
        ELSE room[k]]

\* cacheService.Set, noopCache.Set, redisCache.Set
CacheSet(data, key, value) ==
  IF cacheKind \in {"none", "disabled"} THEN data
  ELSE IF cacheKind = "redis" THEN RedisSet(data, key, value)
  ELSE MemorySet(data, key, value)

\* a Delete that empties the map
CacheDeleteAll(data, key) == EmptyMap

\* cacheService.Delete, noopCache.Delete, redisCache.Delete
CacheDelete(data, key) ==
  IF cacheKind \in {"none", "disabled"} THEN data
  ELSE IF cacheKind = "redis" /\ ~redisUp THEN data
  ELSE [k \in DOMAIN data \ {key} |-> data[k]]

\* a Clear that removes the expired entries only
CacheClearExpired(data) == evictExpired(data)

\* cacheService.Clear (it does not test enabled), noopCache.Clear,
\* redisCache.Clear (a failing Scan yields no key, nothing is deleted)
CacheClear(data) ==
  IF cacheKind = "none" THEN data
  ELSE IF cacheKind = "redis" /\ ~redisUp THEN data
  ELSE EmptyMap

(***************************************************************************)
(* Permission evaluator.                                                   *)
(***************************************************************************)
\* permissionEvaluator.evaluateCondition
evaluateCondition(condition, context) ==
  IF condition = NoCond \/ condition = "" THEN TRUE ELSE TRUE

NoBinding == [allowed |-> FALSE, reason |-> "No matching binding found", via |-> 0]

\* a loop that ends at the first binding that holds the principal
RECURSIVE ScanBindingsFirstMember(_, _, _, _, _)
ScanBindingsFirstMember(bs, principal, resourceID, permission, context) ==
  IF bs = <<>> THEN NoBinding
  ELSE LET binding == bindings[Head(bs)]
           rest == ScanBindingsFirstMember(Tail(bs), principal, resourceID, permission,
                                           context)
       IN IF ~HasMember(binding.members, principal) THEN rest
          ELSE IF RoleLoaded(binding.role)
                  /\ HasPermission(roles[binding.role].perms, permission)
               THEN [allowed |-> TRUE,
                     reason |-> "Permission granted via role '" \o RoleName(binding.role)
                                \o "' on resource '" \o ResIdString(resourceID) \o "'",
                     via |-> Head(bs)]
          ELSE NoBinding

\* the loop over policy.Bindings in checkResourcePermission
RECURSIVE ScanBindings(_, _, _, _, _)
ScanBindings(bs, principal, resourceID, permission, context) ==
  IF bs = <<>> THEN NoBinding
  ELSE LET binding == bindings[Head(bs)]
           rest == ScanBindings(Tail(bs), principal, resourceID, permission, context)
       IN IF ~HasMember(binding.members, principal) THEN rest
          ELSE IF binding.cond # NoCond /\ ~evaluateCondition(binding.cond, context)
               THEN rest
          ELSE IF RoleLoaded(binding.role)
                  /\ HasPermission(roles[binding.role].perms, permission)
               THEN [allowed |-> TRUE,
                     reason |-> "Permission granted via role '" \o RoleName(binding.role)
                                \o "' on resource '" \o ResIdString(resourceID) \o "'",
                     via |-> Head(bs)]
          ELSE rest

\* permissionEvaluator.checkResourcePermission, the policy fetch having succeeded
checkResourcePermission(principal, resourceID, permission, context) ==
  LET policy == PolicyGetByResourceID(resourceID) IN
  IF policy = 0
  THEN [allowed |-> FALSE, reason |-> "No policy found for resource", via |-> 0]
  ELSE ScanBindings(PolicyBindings(policy), principal, resourceID, permission, context)

\* a decision that is written to the cache whatever it is
DecisionWritten(allowed, reason, err, hit, reads, write, via, polReads) ==
  [allowed |-> allowed, reason |-> reason, err |-> err, hit |-> hit,
   reads |-> reads, write |-> TRUE, via |-> via, polReads |-> polReads]

\* what CheckPermission returns, and what it did: hit, the cache answered;
\* reads, the repository reads made; write, cache.Set was called; via, the
\* binding that granted; polReads, the resources whose policy was fetched
Decision(allowed, reason, err, hit, reads, write, via, polReads) ==
  [allowed |-> allowed, reason |-> reason, err |-> err, hit |-> hit,
   reads |-> reads, write |-> write, via |-> via, polReads |-> polReads]

\* a loop that skips the resource whose policy fetch fails
RECURSIVE WalkChainSwallow(_, _, _, _, _, _, _)
WalkChainSwallow(rs, principal, permission, context, failAt, nread, seen) ==
  IF rs = <<>>
  THEN Decision(FALSE, "Permission denied: no matching policy found", FALSE, FALSE,
                nread, FALSE, 0, seen)
  ELSE LET resID == Head(rs)
           c == checkResourcePermission(principal, resID, permission, context)
       IN IF failAt # nread + 1 /\ c.allowed
          THEN Decision(TRUE, c.reason, FALSE, FALSE,
                        nread + 1, TRUE, c.via, seen \cup {resID})
          ELSE WalkChainSwallow(Tail(rs), principal, permission, context, failAt,
                                nread + 1, seen \cup {resID})

\* the loop over the hierarchy in CheckPermission; failAt names the repository
\* read that fails (0: none), nread counts the reads made so far
RECURSIVE WalkChain(_, _, _, _, _, _, _)
WalkChain(rs, principal, permission, context, failAt, nread, seen) ==
  IF rs = <<>>
  THEN Decision(FALSE, "Permission denied: no matching policy found", FALSE, FALSE,
                nread, FALSE, 0, seen)
  ELSE LET resID == Head(rs)
           c == checkResourcePermission(principal, resID, permission, context)
       IN IF failAt = nread + 1
          THEN Decision(FALSE, "Error fetching policy", TRUE, FALSE,
                        nread + 1, FALSE, 0, seen \cup {resID})
          ELSE IF c.allowed
          THEN Decision(TRUE, c.reason, FALSE, FALSE,
                        nread + 1, TRUE, c.via, seen \cup {resID})
          ELSE WalkChain(Tail(rs), principal, permission, context, failAt,
                         nread + 1, seen \cup {resID})

\* permissionEvaluator.CheckPermission after the cache probe: the resource,
\* its ancestors, the walk
Evaluate(principal, resourceID, permission, context, failAt) ==
  IF failAt = 1
  THEN Decision(FALSE, "Error fetching resource", TRUE, FALSE, 1, FALSE, 0, {})
  ELSE IF ~ResourceGetByID(resourceID)
  THEN Decision(FALSE, "Resource not found", FALSE, FALSE, 1, FALSE, 0, {})
  ELSE IF failAt = 2
  THEN Decision(FALSE, "Error fetching resource ancestors", TRUE, FALSE, 2, FALSE, 0, {})
  ELSE WalkChain(<<resourceID>> \o GetAncestors(resourceID), principal, permission,
                 context, failAt, 2, {})

\* the cache probe of CheckPermission: only a cached true answers
\* a probe that never finds an entry
ProbeNever(principal, resourceID, permission) == FALSE

Probe(principal, resourceID, permission) ==
  LET got == CacheGet(GenerateCacheKey(principal, ResIdString(resourceID), permission))
  IN got.found /\ got.value

Cached == Decision(TRUE, "Permission granted (cached)", FALSE, TRUE, 0, FALSE, 0, {})

\* permissionEvaluator.CheckPermission
CheckPermission(principal, resourceID, permission, context, failAt) ==
  IF Probe(principal, resourceID, permission) THEN Cached
  ELSE Evaluate(principal, resourceID, permission, context, failAt)

(***************************************************************************)
(* Repository writes.                                                      *)
(***************************************************************************)
\* the empty ETag string
NoETag == <<0, 0>>

\* uuid.New().String() of the hooks: a fresh ETag, named by the policy and
\* the generation it is drawn for
NewETag(policyID, generation) == <<policyID, generation>>

\* Policy.BeforeCreate: the ETag the caller set is kept, an empty one is
\* replaced by a fresh one
BeforeCreate(policyID, etag) == IF etag = NoETag THEN NewETag(policyID, 1) ELSE etag

\* an update hook that increments the version and keeps the ETag
BeforeUpdateKeepETag(policyID, row) == [row EXCEPT !.version = row.version + 1]

\* Policy.BeforeUpdate: a fresh ETag and Version++
BeforeUpdate(policyID, row) ==
  [row EXCEPT !.etag = NewETag(policyID, row.etag[2] + 1), !.version = row.version + 1]

\* a guard that refuses the empty ETag only
RejectedIfEmpty(policyID, etag) == policyID = 0 \/ etag = NoETag

\* a guard that tests the presence of the policy and not the ETag
RejectedIfMissing(policyID, etag) == policyID = 0

\* the guard of UpdatePolicy and DeletePolicy: no live policy for the
\* resource ("policy not found"), or policy.ETag != etag ("etag mismatch")
Rejected(policyID, etag) == policyID = 0 \/ policies[policyID].etag # etag

\* policyRepository.Create succeeds when the resource row exists (foreign key)
\* and no policy row, live or soft-deleted, has the resource_id (unique index)
PolicyCreateOk(resourceID) ==
  /\ ResourceRow(resourceID)
  /\ \A i \in 1..Len(policies) : policies[i].res # resourceID

\* bindingRepository.Create succeeds when the role row exists (foreign key)
BindingCreateOk(b) == b.role \in 1..Len(roles)

\* the loop "for i := range bindings" of CreatePolicy and UpdatePolicy: it
\* stops at the first binding the repository refuses
RECURSIVE CreateRows(_, _, _)
CreateRows(rows, bs, policyID) ==
  IF bs = <<>> THEN [rows |-> rows, ok |-> TRUE]
  ELSE IF ~BindingCreateOk(Head(bs)) THEN [rows |-> rows, ok |-> FALSE]
  ELSE CreateRows(Append(rows, [policy |-> policyID, role |-> Head(bs).role,
                                members |-> Head(bs).members, cond |-> Head(bs).cond,
                                live |-> TRUE]),
                  Tail(bs), policyID)

\* bindingRepository.Delete: the soft-deleted row is never read again, so only
\* its marker is kept
Tombstone == [policy |-> 0, role |-> 0, members |-> <<>>, cond |-> NoCond, live |-> FALSE]

\* a loop that deletes no binding
DeleteRowsNone(rows, policyID) == rows

\* the loop "for _, binding := range policy.Bindings" of UpdatePolicy
DeleteRows(rows, policyID) ==
  [i \in 1..Len(rows) |->
     IF rows[i].live /\ rows[i].policy = policyID THEN Tombstone ELSE rows[i]]

(***************************************************************************)
(* What a facade call leaves in "last".                                    *)
(***************************************************************************)
NoDecision == Decision(FALSE, "", FALSE, FALSE, 0, FALSE, 0, {})

\* the arguments of a policy or binding call, and the policy as the call
\* found it: was is the id of the live policy of the resource (0: none), its
\* version and ETag, and the ids of its live bindings
NoArg ==
  [r |-> 0, bs |-> <<>>, etag |-> NoETag, cond |-> NoCond,
   was |-> [policy |-> 0, version |-> 0, etag |-> NoETag, bindings |-> <<>>]]

\* what the other calls return: the role and permission names of
\* GetEffectivePermissions, its error, the repository read that was made to
\* fail and the reads it made; the key, the value and the found
\* flag of a call of the cache, the time of the call and the calls made on
\* each key so far; the id a delete was given and whether a live
\* row had that id when it was called
NoOut ==
  [roles |-> {}, perms |-> {}, err |-> "", failAt |-> 0, reads |-> 0,
   key |-> "", value |-> FALSE, found |-> FALSE, at |-> 0, hist |-> <<>>,
   id |-> 0, existed |-> FALSE]

\* a mutation: warm tells whether the cache held an entry when it was called
Returned(op, ok) ==
  [op |-> op, ok |-> ok, after |-> "", afterOk |-> FALSE, warm |-> cache # EmptyMap,
   p |-> "", r |-> 0, x |-> "", d |-> NoDecision, arg |-> NoArg, out |-> NoOut]

Snapshot(resourceID) ==
  LET policyID == PolicyGetByResourceID(resourceID) IN
  IF policyID = 0 THEN NoArg.was
  ELSE [policy |-> policyID, version |-> policies[policyID].version,
        etag |-> policies[policyID].etag, bindings |-> PolicyBindings(policyID)]

\* the return of a policy or binding call
PolicyCall(op, ok, resourceID, bs, etag, cond) ==
  [Returned(op, ok) EXCEPT
     !.arg = [r |-> resourceID, bs |-> bs, etag |-> etag, cond |-> cond,
              was |-> Snapshot(resourceID)]]

\* no call in flight.  A check in flight is at "walk" (the cache probe
\* missed) or at "set" (the walk is made, its decision is d); a mutation in
\* flight is at the step its pc names, and "done" once it has returned
NoCheck ==
  [pc |-> "idle", p |-> "", r |-> 0, x |-> "", after |-> "", afterOk |-> FALSE,
   d |-> NoDecision]
NoMut == [pc |-> "idle", op |-> "", ok |-> FALSE, policy |-> 0, binding |-> 0, bs |-> <<>>]
\* an UpdatePolicy call with the policy it has read: its id, the row as
\* read (the struct policyRepo.Update saves) and the ids of its bindings
Updaters == {1, 2}
NoUpd ==
  [pc |-> "idle", r |-> 0, bs |-> <<>>, etag |-> NoETag, ok |-> FALSE,
   policy |-> 0, row |-> [res |-> 0, version |-> 0, etag |-> NoETag, live |-> FALSE],
   old |-> <<>>]
Idle == [chk |-> NoCheck, mut |-> NoMut, upd |-> [i \in Updaters |-> NoUpd]]

\* one more facade call, within the budget of the model, run to completion
\* while no other call is in flight; a mutating call leaves room for the
\* check that follows it
Call == ops < MaxOps /\ ops' = ops + 1 /\ inflight = Idle /\ UNCHANGED inflight
Mutation == ops + 1 < MaxOps /\ ops' = ops + 1 /\ inflight = Idle /\ UNCHANGED inflight

(***************************************************************************)
(* IAM service facade: resources and roles.                                *)
(***************************************************************************)
\* IAMService.CreateResource
CreateResource(parentID) ==
  /\ Mutation
  /\ Len(resources) < MaxRes
  /\ parentID \in 0..Len(resources)
  /\ resources' = Append(resources, [parent |-> parentID, live |-> TRUE])
  /\ last' = Returned("CreateResource", TRUE)
  /\ UNCHANGED <<roles, policies, bindings, cacheKind, maxSize, redisUp, cache, now>>

\* the return of a delete by id: the repository's Delete reports no error
\* when no row is affected
DeleteCall(op, id, existed) ==
  [Returned(op, TRUE) EXCEPT !.out.id = id, !.out.existed = existed]

\* IAMService.DeleteResource
DeleteResource(id) ==
  /\ Mutation
  /\ resources' = IF ResourceGetByID(id)
                  THEN [resources EXCEPT ![id].live = FALSE] ELSE resources
  /\ last' = DeleteCall("DeleteResource", id, ResourceGetByID(id))
  /\ UNCHANGED <<roles, policies, bindings, cacheKind, maxSize, redisUp, cache, now>>

\* IAMService.CreateRole
CreateRole(perms) ==
  /\ Mutation
  /\ Len(roles) < MaxRoles
  /\ roles' = Append(roles, [perms |-> perms, live |-> TRUE])
  /\ last' = Returned("CreateRole", TRUE)
  /\ UNCHANGED <<resources, policies, bindings, cacheKind, maxSize, redisUp, cache, now>>

\* IAMService.UpdateRole
UpdateRole(id, perms) ==
  /\ Mutation
  /\ id \in 1..Len(roles)
  /\ IF ~RoleLoaded(id)
     THEN /\ last' = Returned("UpdateRole", FALSE)
          /\ UNCHANGED roles
     ELSE /\ roles' = [roles EXCEPT ![id].perms = perms]
          /\ last' = Returned("UpdateRole", TRUE)
  /\ UNCHANGED <<resources, policies, bindings, cacheKind, maxSize, redisUp, cache, now>>

\* IAMService.DeleteRole
DeleteRole(id) ==
  /\ Mutation
  /\ roles' = IF RoleLoaded(id) THEN [roles EXCEPT ![id].live = FALSE] ELSE roles
  /\ last' = DeleteCall("DeleteRole", id, RoleLoaded(id))
  /\ UNCHANGED <<resources, policies, bindings, cacheKind, maxSize, redisUp, cache, now>>

(***************************************************************************)
(* IAM service facade: policies and bindings.                              *)
(***************************************************************************)
\* IAMService.CreatePolicy
CreatePolicy(resourceID, bs) ==
  /\ Mutation
  /\ Len(bindings) + Len(bs) <= MaxBindings
  /\ IF ~PolicyCreateOk(resourceID)
     THEN /\ last' = PolicyCall("CreatePolicy", FALSE, resourceID, bs, NoETag, NoCond)
          /\ UNCHANGED <<policies, bindings, cache>>
     ELSE LET policyID == Len(policies) + 1
              made == CreateRows(bindings, bs, policyID)
          IN /\ policies' = Append(policies,
                   [res |-> resourceID, version |-> 1,
                    etag |-> BeforeCreate(policyID, NoETag), live |-> TRUE])
             /\ bindings' = made.rows
             /\ cache' = IF made.ok THEN CacheClear(cache) ELSE cache
             /\ last' = PolicyCall("CreatePolicy", made.ok, resourceID, bs, NoETag, NoCond)
  /\ UNCHANGED <<resources, roles, cacheKind, maxSize, redisUp, now>>

\* IAMService.UpdatePolicy
UpdatePolicy(resourceID, bs, etag) ==
  LET policyID == PolicyGetByResourceID(resourceID) IN
  /\ Mutation
  /\ IF Rejected(policyID, etag)
     THEN /\ last' = PolicyCall("UpdatePolicy", FALSE, resourceID, bs, etag, NoCond)
          /\ UNCHANGED <<policies, bindings, cache>>
     ELSE LET kept == DeleteRows(bindings, policyID)
              made == CreateRows(kept, bs, policyID)
          IN /\ Len(bindings) + Len(bs) <= MaxBindings
             /\ policies[policyID].version < MaxVersion
             /\ bindings' = made.rows
             /\ policies' = IF made.ok
                            THEN [policies EXCEPT
                                    ![policyID] = BeforeUpdate(policyID, @)]
                            ELSE policies
             /\ cache' = IF made.ok THEN CacheClear(cache) ELSE cache
             /\ last' = PolicyCall("UpdatePolicy", made.ok, resourceID, bs, etag, NoCond)
  /\ UNCHANGED <<resources, roles, cacheKind, maxSize, redisUp, now>>

\* IAMService.DeletePolicy: the cache is cleared, then the row is deleted
DeletePolicy(resourceID, etag) ==
  LET policyID == PolicyGetByResourceID(resourceID) IN
  /\ Mutation
  /\ IF Rejected(policyID, etag)
     THEN /\ last' = PolicyCall("DeletePolicy", FALSE, resourceID, <<>>, etag, NoCond)
          /\ UNCHANGED <<policies, cache>>
     ELSE /\ cache' = CacheClear(cache)
          /\ policies' = [policies EXCEPT ![policyID].live = FALSE]
          /\ last' = PolicyCall("DeletePolicy", TRUE, resourceID, <<>>, etag, NoCond)
  /\ UNCHANGED <<resources, roles, bindings, cacheKind, maxSize, redisUp, now>>

\* a CreateBinding that also saves the policy row, as UpdatePolicy does
CreateBindingTouch(resourceID, roleID, members, condition) ==
  LET found == PolicyGetByResourceID(resourceID)
      policyID == IF found = 0 THEN Len(policies) + 1 ELSE found
      b == [role |-> roleID, members |-> Marshal(members), cond |-> NoCond]
  IN
  /\ Mutation
  /\ Len(bindings) < MaxBindings
  /\ IF (found = 0 /\ ~PolicyCreateOk(resourceID)) \/ ~BindingCreateOk(b)
     THEN /\ last' = PolicyCall("CreateBinding", FALSE, resourceID, <<b>>, NoETag, condition)
          /\ UNCHANGED <<policies, bindings, cache>>
     ELSE /\ policies' = IF found = 0
                         THEN Append(policies,
                                [res |-> resourceID, version |-> 1,
                                 etag |-> BeforeCreate(policyID, NoETag), live |-> TRUE])
                         ELSE [policies EXCEPT ![found] = BeforeUpdate(found, @)]
          /\ bindings' = CreateRows(bindings, <<b>>, policyID).rows
          /\ cache' = CacheClear(cache)
          /\ last' = PolicyCall("CreateBinding", TRUE, resourceID, <<b>>, NoETag, condition)
  /\ UNCHANGED <<resources, roles, cacheKind, maxSize, redisUp, now>>

\* IAMService.CreateBinding: the condition argument is not persisted
CreateBinding(resourceID, roleID, members, condition) ==
  LET found == PolicyGetByResourceID(resourceID)
      policyID == IF found = 0 THEN Len(policies) + 1 ELSE found
      b == [role |-> roleID, members |-> Marshal(members), cond |-> NoCond]
  IN
  /\ Mutation
  /\ Len(bindings) < MaxBindings
  /\ IF found = 0 /\ ~PolicyCreateOk(resourceID)
     THEN /\ last' = PolicyCall("CreateBinding", FALSE, resourceID, <<b>>, NoETag, condition)
          /\ UNCHANGED <<policies, bindings, cache>>
     ELSE /\ policies' = IF found = 0
                         THEN Append(policies,
                                [res |-> resourceID, version |-> 1,
                                 etag |-> BeforeCreate(policyID, NoETag), live |-> TRUE])
                         ELSE policies
          /\ IF ~BindingCreateOk(b)
             THEN /\ last' = PolicyCall("CreateBinding", FALSE, resourceID, <<b>>, NoETag, condition)
                  /\ UNCHANGED <<bindings, cache>>
             ELSE /\ bindings' = CreateRows(bindings, <<b>>, policyID).rows
                  /\ cache' = CacheClear(cache)
                  /\ last' = PolicyCall("CreateBinding", TRUE, resourceID, <<b>>, NoETag, condition)
  /\ UNCHANGED <<resources, roles, cacheKind, maxSize, redisUp, now>>

\* policyRepository.Create called with a Policy whose ETag the caller has set
PolicyCreate(resourceID, etag) ==
  LET policyID == Len(policies) + 1 IN
  /\ Mutation
  /\ IF ~PolicyCreateOk(resourceID)
     THEN /\ last' = PolicyCall("PolicyCreate", FALSE, resourceID, <<>>, etag, NoCond)
          /\ UNCHANGED policies
     ELSE /\ policies' = Append(policies,
                 [res |-> resourceID, version |-> 1,
                  etag |-> BeforeCreate(policyID, etag), live |-> TRUE])
          /\ last' = PolicyCall("PolicyCreate", TRUE, resourceID, <<>>, etag, NoCond)
  /\ UNCHANGED <<resources, roles, bindings, cacheKind, maxSize, redisUp, cache, now>>

\* a live binding row with this id
BindingLive(id) == id \in 1..Len(bindings) /\ bindings[id].live

\* IAMService.DeleteBinding: the cache is cleared, then the row is deleted
DeleteBinding(id) ==
  /\ Mutation
  /\ cache' = CacheClear(cache)
  /\ bindings' = IF BindingLive(id)
                 THEN [bindings EXCEPT ![id] = Tombstone] ELSE bindings
  /\ last' = DeleteCall("DeleteBinding", id, BindingLive(id))
  /\ UNCHANGED <<resources, roles, policies, cacheKind, maxSize, redisUp, now>>

(***************************************************************************)
(* IAM service facade: the decision.                                       *)
(***************************************************************************)
\* IAMService.CheckPermission, run to completion
Check(principal, resourceID, permission, context, failAt) ==
  LET d == CheckPermission(principal, resourceID, permission, context, failAt)
      cacheKey == GenerateCacheKey(principal, ResIdString(resourceID), permission)
  IN /\ Call
     /\ cache' = IF d.write THEN CacheSet(cache, cacheKey, TRUE) ELSE cache
     /\ last' = [op |-> "CheckPermission", ok |-> ~d.err,
                 after |-> last.op, afterOk |-> last.ok,
                 warm |-> last.op # "CheckPermission" /\ last.warm,
                 p |-> principal, r |-> resourceID, x |-> permission, d |-> d,
                 arg |-> NoArg, out |-> NoOut]
     /\ UNCHANGED <<resources, roles, policies, bindings, cacheKind, maxSize, redisUp, now>>

\* time.Now() as Get and Set read it: time passes between two calls
Tick(d) ==
  /\ Mutation
  /\ now + d <= MaxTime
  /\ now' = now + d
  /\ UNCHANGED <<resources, roles, policies, bindings, cacheKind, maxSize, redisUp, cache, last>>

(***************************************************************************)
(* Specification Spec.  It starts from a store the facade can have built   *)
(* by CreateResource, CreateRole and at most one CreateBinding call: a     *)
(* forest of live resources, the roles of RoleSeeds, and no policy or the  *)
(* policy CreateBinding made for its one binding.  Permissions "read" and  *)
(* "write" exist.  The cache is the local expiring variant, empty.  Calls  *)
(* are made one after the other, with arguments the store accepts.         *)
(***************************************************************************)
Forests ==
  UNION {{f \in [1..n -> [parent : 0..MaxRes, live : {TRUE}]] :
            \A i \in 1..n : f[i].parent < i} : n \in 1..MaxRes - 1}

RoleInputs == {{"read"}, {"read", "write"}}
RoleSeeds ==
  {<<[perms |-> {"read"}, live |-> TRUE]>>,
   <<[perms |-> {"read"}, live |-> TRUE], [perms |-> {"read", "write"}, live |-> TRUE]>>}

Alice == Marshal(<<"user:alice">>)
Bob == Marshal(<<"user:bob">>)

\* the policy and binding rows after CreateBinding(r, roleID, ["user:alice"], nil)
\* on a store without policies
SeedPolicy(r) ==
  <<[res |-> r, version |-> 1, etag |-> NewETag(1, 1), live |-> TRUE]>>
SeedBinding(roleID) ==
  <<[policy |-> 1, role |-> roleID, members |-> Alice, cond |-> NoCond, live |-> TRUE]>>

InitStore ==
  /\ resources \in Forests
  /\ roles \in RoleSeeds
  /\ \/ policies = <<>> /\ bindings = <<>>
     \/ \E r \in 1..Len(resources), roleID \in 1..Len(roles) :
          policies = SeedPolicy(r) /\ bindings = SeedBinding(roleID)

Init ==
  /\ InitStore
  /\ cacheKind = "memory"
  /\ maxSize = MaxSize
  /\ redisUp = TRUE
  /\ cache = EmptyMap
  /\ now = 0
  /\ last = [Returned("New", TRUE) EXCEPT !.warm = FALSE]
  /\ ops = 0
  /\ inflight = Idle

BindingInputs == [role : 1..MaxRoles, members : {Alice}, cond : Conds]
BindingSeqs ==
  {<<>>} \cup {<<b>> : b \in BindingInputs}
  \cup {<<[role |-> 1, members |-> Bob, cond |-> NoCond], b>> :
          b \in {c \in BindingInputs : c.cond = NoCond}}

Accepted(bs) == \A i \in 1..Len(bs) : BindingCreateOk(bs[i])
HasPolicy(r) == PolicyGetByResourceID(r) # 0
CurrentETag(r) == policies[PolicyGetByResourceID(r)].etag

Next ==
  \/ \E parentID \in 0..MaxRes : CreateResource(parentID)
  \/ \E id \in 1..MaxRes : ResourceGetByID(id) /\ DeleteResource(id)
  \/ \E perms \in RoleInputs : CreateRole(perms)
  \/ \E id \in 1..MaxRoles, perms \in RoleInputs :
       RoleLoaded(id) /\ roles[id].perms # perms /\ UpdateRole(id, perms)
  \/ \E id \in 1..MaxRoles : RoleLoaded(id) /\ DeleteRole(id)
  \/ \E r \in 1..MaxRes, bs \in BindingSeqs :
       PolicyCreateOk(r) /\ Accepted(bs) /\ CreatePolicy(r, bs)
  \/ \E r \in 1..MaxRes, bs \in BindingSeqs :
       HasPolicy(r) /\ Accepted(bs) /\ UpdatePolicy(r, bs, CurrentETag(r))
  \/ \E r \in 1..MaxRes : HasPolicy(r) /\ DeletePolicy(r, CurrentETag(r))
  \/ \E r \in 1..MaxRes, roleID \in 1..MaxRoles :
       /\ HasPolicy(r) \/ PolicyCreateOk(r)
       /\ roleID \in 1..Len(roles)
       /\ CreateBinding(r, roleID, <<"user:alice">>, NoCond)
  \/ \E id \in 1..MaxBindings :
       id \in 1..Len(bindings) /\ bindings[id].live /\ DeleteBinding(id)
  \/ \E p \in Principals, r \in 1..MaxRes, x \in PermNames, c \in Contexts :
       Check(p, r, x, c, 0)
  \/ \E r \in 1..MaxRes, c \in Contexts, failAt \in 1..MaxFail :
       Check("user:alice", r, "read", c, failAt)
  \/ \E d \in 1..MaxTime : Tick(d)

Spec == Init /\ [][Next]_vars

(***************************************************************************)
(* Properties of the decision.  The store is read as the repositories read *)
(* it: a soft-deleted row does not exist.                                  *)
(***************************************************************************)
\* the proper ancestors of a resource: a is one when parent links lead from
\* the resource to a through live rows
Ancestors(r) ==
  {a \in 1..Len(resources) :
     \E k \in 1..Len(resources) : \E path \in [1..k -> 1..Len(resources)] :
       /\ ResourceRow(r)
       /\ path[1] = resources[r].parent
       /\ path[k] = a
       /\ \A i \in 1..k : resources[path[i]].live
       /\ \A i \in 1..(k - 1) : path[i + 1] = resources[path[i]].parent}

Chain(r) == {r} \cup Ancestors(r)

\* binding b lets principal p use permission x
Matches(b, p, x) ==
  /\ b.live
  /\ LET got == GetMembers(b.members)
     IN ~got.err /\ \E k \in 1..Len(got.members) : got.members[k] = p
  /\ b.cond = NoCond \/ \E c \in Contexts : evaluateCondition(b.cond, c)
  /\ RoleLoaded(b.role)
  /\ x \in roles[b.role].perms

\* the resource a binding is attached to, through its policy
AttachedTo(j) == policies[bindings[j].policy].res

\* resource a has a live policy holding a binding that matches
GrantsAt(a, p, x) ==
  \E i \in 1..Len(policies) : \E j \in 1..Len(bindings) :
    /\ policies[i].live /\ policies[i].res = a
    /\ bindings[j].policy = i
    /\ Matches(bindings[j], p, x)

Granted(p, r, x) == ResourceGetByID(r) /\ \E a \in Chain(r) : GrantsAt(a, p, x)

IsCheck == last.op = "CheckPermission"
Uncached == IsCheck /\ ~last.d.hit /\ ~last.d.err
NoMatchingPolicy == "Permission denied: no matching policy found"
ResourceNotFound == "Resource not found"

C2_AsWritten ==
  \A p \in Principals, x \in PermNames, c \in Contexts :
    \A R \in 1..Len(resources) : \A A \in Ancestors(R) :
      resources[R].live /\ CheckPermission(p, A, x, c, 0).allowed
        => CheckPermission(p, R, x, c, 0).allowed

\* C3: a check on A consults only the policies of A and of A's ancestors,
\* and the binding that grants it is attached to one of them: a binding
\* attached to a descendant of A never grants a check on A
C3_NoDownward ==
  IsCheck /\ ~last.d.err =>
    /\ last.d.polReads \subseteq Chain(last.r)
    /\ last.d.allowed /\ ~last.d.hit => AttachedTo(last.d.via) \in Chain(last.r)

\* a check on A is refused while a descendant of A has a binding that
\* matches the same principal and permission
C3_Witness ==
  /\ Uncached /\ ~last.d.allowed /\ ResourceGetByID(last.r)
  /\ \E D \in 1..Len(resources) :
       /\ resources[D].live
       /\ last.r \in Ancestors(D)
       /\ GrantsAt(D, last.p, last.x)

(***************************************************************************)
(* Properties of the cache coupling, calls made one after the other.       *)
(***************************************************************************)
PolicyMutations ==
  {"CreatePolicy", "UpdatePolicy", "DeletePolicy", "CreateBinding", "DeleteBinding"}

C6_AsWritten ==
  IsCheck /\ last.after \in {"UpdateRole", "DeleteRole"} /\ last.afterOk /\ ~last.d.err =>
    (last.d.allowed <=> Granted(last.p, last.r, last.x))

\* C7, as written: a check on a deleted resource is refused with the reason
\* "resource not found", and the check that follows DeleteResource is
\* allowed only if the store, without the deleted resource, grants it
C7_AsWritten ==
  IsCheck /\ ~last.d.err =>
    /\ ~ResourceGetByID(last.r) =>
         ~last.d.allowed /\ last.d.reason = ResourceNotFound
    /\ last.after = "DeleteResource" /\ last.d.allowed =>
         Granted(last.p, last.r, last.x)

\* C9: every entry of the decision cache has the value true, and a check
\* that ends in a denial, a missing resource or an error leaves the cache
\* as it was
C9_PositiveOnly ==
  /\ [](\A k \in DOMAIN cache : cache[k].value = TRUE)
  /\ [][IsCheck' /\ (~last'.d.allowed \/ last'.d.err) => cache' = cache]_vars

\* a refused check and an entry in the cache
C9_Witness ==
  /\ IsCheck /\ ~last.d.allowed /\ last.after = "CheckPermission"
  /\ cache # EmptyMap

\* C10: a check that was refused is not answered from the cache when it is
\* repeated, the walk is made again; and the check that follows a
\* successful CreateBinding or CreatePolicy after which the store grants it
\* is allowed, by a walk
C10_Recompute ==
  IsCheck =>
    /\ ~last.d.allowed =>
         \A c \in Contexts :
           LET again == CheckPermission(last.p, last.r, last.x, c, 0)
           IN ~again.hit /\ again.reads >= 1
    /\ /\ last.after \in {"CreateBinding", "CreatePolicy"} /\ last.afterOk
       /\ ~last.d.err /\ Granted(last.p, last.r, last.x)
       => last.d.allowed /\ ~last.d.hit

\* a check granted by the binding CreateBinding has just made, on an ancestor
C10_Witness ==
  /\ IsCheck /\ last.after = "CreateBinding" /\ last.afterOk
  /\ last.d.allowed /\ last.d.via = Len(bindings)
  /\ AttachedTo(last.d.via) \in Ancestors(last.r)

(***************************************************************************)
(* Specification SpecMember.  CreatePolicy stores the Members text of the  *)
(* bindings it is given as it is; the text is any sequence of at most      *)
(* MaxRaw tokens.  One resource, one role holding "read"; a policy is      *)
(* created and a check is made.                                            *)
(***************************************************************************)
MaxRaw == 5
Tokens == {LBr, RBr, Comma, Null, Num, Str("user:alice"), Str("")}
RawMembers == UNION {[1..n -> Tokens] : n \in 1..MaxRaw}
MemberPrincipals == {"user:alice", "User:alice", "user:alice ", ""}

InitMember ==
  /\ resources = <<[parent |-> 0, live |-> TRUE]>>
  /\ roles = <<[perms |-> {"read"}, live |-> TRUE]>>
  /\ policies = <<>>
  /\ bindings = <<>>
  /\ cacheKind = "memory"
  /\ maxSize = MaxSize
  /\ redisUp = TRUE
  /\ cache = EmptyMap
  /\ now = 0
  /\ last = [Returned("New", TRUE) EXCEPT !.warm = FALSE]
  /\ ops = MaxOps - 2
  /\ inflight = Idle

NextMember ==
  \/ /\ PolicyCreateOk(1)
     /\ \E raw \in RawMembers :
          CreatePolicy(1, <<[role |-> 1, members |-> raw, cond |-> NoCond]>>)
  \/ \E p \in MemberPrincipals, c \in Contexts : Check(p, 1, "read", c, 0)

SpecMember == InitMember /\ [][NextMember]_vars

\* the text is a JSON array whose elements are all strings
WellFormedStrings(raw) ==
  /\ Len(raw) >= 2 /\ raw[1] = LBr /\ raw[Len(raw)] = RBr
  /\ LET inner == SubSeq(raw, 2, Len(raw) - 1)
     IN \/ inner = <<>>
        \/ /\ Len(inner) % 2 = 1
           /\ \A i \in 1..Len(inner) :
                IF i % 2 = 1 THEN inner[i][1] = "s" ELSE inner[i] = Comma

\* the strings that are elements of the text
Elements(raw) == {raw[i][2] : i \in {j \in 1..Len(raw) : raw[j][1] = "s"}}

\* C4, as written: HasMember is true only when the stored text is a
\* well-formed JSON array of strings and one of its elements equals the
\* principal byte for byte, and a check is granted only through a binding
\* for which HasMember is true
C4_AsWritten ==
  IsCheck =>
    /\ \A j \in 1..Len(bindings) :
         bindings[j].live /\ HasMember(bindings[j].members, last.p)
           => /\ WellFormedStrings(bindings[j].members)
              /\ last.p \in Elements(bindings[j].members)
    /\ last.d.allowed /\ ~last.d.hit
         => HasMember(bindings[last.d.via].members, last.p)

(***************************************************************************)
(* Specification SpecConc.  One facade mutation and the checks are made    *)
(* step by step, each step one access to the store or to the cache, and    *)
(* the steps of a check and of the mutation interleave.  The mutex of the  *)
(* cache makes each Get, Set and Clear one step; nothing orders the walk   *)
(* of a check and its Set against the steps of a mutation.                 *)
(***************************************************************************)
\* the mutation that had returned when a call began; the last call, if none
Before == IF inflight.mut.pc = "done" THEN inflight.mut.op ELSE last.op
BeforeOk == IF inflight.mut.pc = "done" THEN inflight.mut.ok ELSE last.ok

Begin == ops < MaxOps /\ ops' = ops + 1

\* CheckPermission: GenerateCacheKey and cache.Get
CheckBegin(principal, resourceID, permission) ==
  /\ Begin
  /\ inflight.chk.pc = "idle"
  /\ IF Probe(principal, resourceID, permission)
     THEN /\ last' = [op |-> "CheckPermission", ok |-> TRUE,
                      after |-> Before, afterOk |-> BeforeOk, warm |-> FALSE,
                      p |-> principal, r |-> resourceID, x |-> permission,
                      d |-> Cached, arg |-> NoArg, out |-> NoOut]
          /\ UNCHANGED inflight
     ELSE /\ inflight' = [inflight EXCEPT !.chk =
                            [pc |-> "walk", p |-> principal, r |-> resourceID,
                             x |-> permission, after |-> Before,
                             afterOk |-> BeforeOk, d |-> NoDecision]]
          /\ UNCHANGED last
  /\ UNCHANGED <<resources, roles, policies, bindings, cacheKind, maxSize, redisUp, cache, now>>

\* CheckPermission: the repository reads
CheckWalk(context) ==
  LET chk == inflight.chk IN
  /\ chk.pc = "walk"
  /\ inflight' = [inflight EXCEPT !.chk.pc = "set",
                    !.chk.d = Evaluate(chk.p, chk.r, chk.x, context, 0)]
  /\ UNCHANGED <<resources, roles, policies, bindings, cacheKind, maxSize, redisUp, cache, now, last, ops>>

\* CheckPermission: cache.Set on a grant, and the return
CheckReturn ==
  LET chk == inflight.chk
      cacheKey == GenerateCacheKey(chk.p, ResIdString(chk.r), chk.x)
  IN /\ chk.pc = "set"
     /\ cache' = IF chk.d.write THEN CacheSet(cache, cacheKey, TRUE) ELSE cache
     /\ last' = [op |-> "CheckPermission", ok |-> ~chk.d.err,
                 after |-> chk.after, afterOk |-> chk.afterOk, warm |-> FALSE,
                 p |-> chk.p, r |-> chk.r, x |-> chk.x, d |-> chk.d,
                 arg |-> NoArg, out |-> NoOut]
     /\ inflight' = [inflight EXCEPT !.chk = NoCheck]
     /\ UNCHANGED <<resources, roles, policies, bindings, cacheKind, maxSize, redisUp, now, ops>>

\* DeleteBinding: cache.Clear
DeleteBindingClear(id) ==
  /\ Begin
  /\ inflight.mut.pc = "idle"
  /\ id \in 1..Len(bindings)
  /\ cache' = CacheClear(cache)
  /\ inflight' = [inflight EXCEPT !.mut =
                    [NoMut EXCEPT !.pc = "delete", !.op = "DeleteBinding", !.binding = id]]
  /\ UNCHANGED <<resources, roles, policies, bindings, cacheKind, maxSize, redisUp, now, last>>

\* DeleteBinding: bindingRepo.Delete, and the return
DeleteBindingDelete ==
  LET id == inflight.mut.binding IN
  /\ inflight.mut.pc = "delete" /\ inflight.mut.op = "DeleteBinding"
  /\ bindings' = IF bindings[id].live
                 THEN [bindings EXCEPT ![id] = Tombstone] ELSE bindings
  /\ last' = Returned("DeleteBinding", TRUE)
  /\ inflight' = [inflight EXCEPT !.mut.pc = "done", !.mut.ok = TRUE]
  /\ UNCHANGED <<resources, roles, policies, cacheKind, maxSize, redisUp, cache, now, ops>>

\* DeletePolicy: GetByResourceID, the ETag test, cache.Clear
DeletePolicyClear(resourceID, etag) ==
  LET policyID == PolicyGetByResourceID(resourceID) IN
  /\ Begin
  /\ inflight.mut.pc = "idle"
  /\ IF Rejected(policyID, etag)
     THEN /\ last' = Returned("DeletePolicy", FALSE)
          /\ inflight' = [inflight EXCEPT !.mut =
                            [NoMut EXCEPT !.pc = "done", !.op = "DeletePolicy"]]
          /\ UNCHANGED cache
     ELSE /\ cache' = CacheClear(cache)
          /\ inflight' = [inflight EXCEPT !.mut =
                            [NoMut EXCEPT !.pc = "delete", !.op = "DeletePolicy",
                                          !.policy = policyID]]
          /\ UNCHANGED last
  /\ UNCHANGED <<resources, roles, policies, bindings, cacheKind, maxSize, redisUp, now>>

\* DeletePolicy: policyRepo.Delete, and the return
DeletePolicyDelete ==
  /\ inflight.mut.pc = "delete" /\ inflight.mut.op = "DeletePolicy"
  /\ policies' = [policies EXCEPT ![inflight.mut.policy].live = FALSE]
  /\ last' = Returned("DeletePolicy", TRUE)
  /\ inflight' = [inflight EXCEPT !.mut.pc = "done", !.mut.ok = TRUE]
  /\ UNCHANGED <<resources, roles, bindings, cacheKind, maxSize, redisUp, cache, now, ops>>

\* UpdatePolicy: GetByResourceID, the ETag test, the old bindings deleted
UpdatePolicyDelete(resourceID, bs, etag) ==
  LET policyID == PolicyGetByResourceID(resourceID) IN
  /\ Begin
  /\ inflight.mut.pc = "idle"
  /\ IF Rejected(policyID, etag)
     THEN /\ last' = Returned("UpdatePolicy", FALSE)
          /\ inflight' = [inflight EXCEPT !.mut =
                            [NoMut EXCEPT !.pc = "done", !.op = "UpdatePolicy"]]
          /\ UNCHANGED bindings
     ELSE /\ Len(bindings) + Len(bs) <= MaxBindings
          /\ policies[policyID].version < MaxVersion
          /\ bindings' = DeleteRows(bindings, policyID)
          /\ inflight' = [inflight EXCEPT !.mut =
                            [NoMut EXCEPT !.pc = "create", !.op = "UpdatePolicy",
                                          !.policy = policyID, !.bs = bs]]
          /\ UNCHANGED last
  /\ UNCHANGED <<resources, roles, policies, cacheKind, maxSize, redisUp, cache, now>>

\* UpdatePolicy: the new bindings created, policyRepo.Update
UpdatePolicyCreate ==
  LET mut == inflight.mut
      made == CreateRows(bindings, mut.bs, mut.policy)
  IN /\ mut.pc = "create"
     /\ bindings' = made.rows
     /\ IF made.ok
        THEN /\ policies' = [policies EXCEPT
                               ![mut.policy] = BeforeUpdate(mut.policy, @)]
             /\ inflight' = [inflight EXCEPT !.mut.pc = "clear"]
             /\ UNCHANGED last
        ELSE /\ last' = Returned("UpdatePolicy", FALSE)
             /\ inflight' = [inflight EXCEPT !.mut.pc = "done"]
             /\ UNCHANGED policies
     /\ UNCHANGED <<resources, roles, cacheKind, maxSize, redisUp, cache, now, ops>>

\* UpdatePolicy: cache.Clear, and the return
UpdatePolicyClear ==
  /\ inflight.mut.pc = "clear"
  /\ cache' = CacheClear(cache)
  /\ last' = Returned("UpdatePolicy", TRUE)
  /\ inflight' = [inflight EXCEPT !.mut.pc = "done", !.mut.ok = TRUE]
  /\ UNCHANGED <<resources, roles, policies, bindings, cacheKind, maxSize, redisUp, now, ops>>

NextConc ==
  \/ \E p \in Principals, r \in 1..MaxRes, x \in PermNames : CheckBegin(p, r, x)
  \/ \E c \in Contexts : CheckWalk(c)
  \/ CheckReturn
  \/ \E id \in 1..MaxBindings :
       id \in 1..Len(bindings) /\ bindings[id].live /\ DeleteBindingClear(id)
  \/ DeleteBindingDelete
  \/ \E r \in 1..MaxRes : HasPolicy(r) /\ DeletePolicyClear(r, CurrentETag(r))
  \/ DeletePolicyDelete
  \/ \E r \in 1..MaxRes, bs \in {<<>>} \cup {<<b>> : b \in BindingInputs} :
       HasPolicy(r) /\ Accepted(bs) /\ UpdatePolicyDelete(r, bs, CurrentETag(r))
  \/ UpdatePolicyCreate
  \/ UpdatePolicyClear

SpecConc == Init /\ [][NextConc]_vars

\* C8, as written: a check that begins after DeletePolicy, DeleteBinding or
\* UpdatePolicy has returned is allowed only if the store, as the mutation
\* left it, grants it
C8_AsWritten ==
  /\ IsCheck /\ last.after \in {"DeletePolicy", "DeleteBinding", "UpdatePolicy"}
  /\ last.afterOk /\ ~last.d.err /\ last.d.allowed
  => Granted(last.p, last.r, last.x)

(***************************************************************************)
(* The cache hit.                                                          *)
(***************************************************************************)
\* the cache holds an entry for the key whose value is true and whose
\* expiration has not passed
FreshEntry(p, r, x) ==
  LET key == GenerateCacheKey(p, ResIdString(r), x) IN
  /\ cacheKind # "none"
  /\ key \in DOMAIN cache
  /\ cache[key].value = TRUE
  /\ now <= cache[key].expiration

\* the step is the return of a check: a call is counted and no time passes
CheckReturned == IsCheck' /\ ops' = ops + 1 /\ now' = now

NoLiveRow == ~(last.r \in 1..Len(resources) /\ resources[last.r].live)

\* C20: a check on a resource that does not exist or is soft-deleted, not
\* answered from the cache, returns false with the reason "Resource not
\* found" and no error after the one read of the resource: it fetches
\* neither the ancestors nor a policy, and it writes nothing to the cache
C20_ResourceNotFound ==
  /\ [](Uncached /\ NoLiveRow =>
         /\ ~last.d.allowed
         /\ last.d.reason = ResourceNotFound
         /\ last.d.reads = 1
         /\ last.d.polReads = {}
         /\ ~last.d.write)
  /\ [][Uncached' /\ NoLiveRow' /\ ops' = ops + 1 /\ now' = now
        => cache' = cache]_vars

\* a check on a soft-deleted resource whose policy and binding are live
C20_Witness ==
  /\ Uncached /\ ~last.d.allowed
  /\ last.r \in 1..Len(resources) /\ ~resources[last.r].live
  /\ GrantsAt(last.r, last.p, last.x)

\* a check on a resource that never existed
C20_WitnessAbsent == Uncached /\ last.r \notin 1..Len(resources)

(***************************************************************************)
(* Policy and binding calls with every kind of argument: a stale or an     *)
(* unknown ETag, a resource without a policy, a binding whose role has no  *)
(* row, a condition.                                                       *)
(***************************************************************************)
PresetETag == <<0, 1>>

ETags == {PresetETag} \cup {NewETag(i, g) : i \in 1..MaxRes, g \in 1..MaxVersion}

\* the ETags a caller echoes: the current one, the one the seed policy was
\* created with, and one no policy ever had
ETagInputs(r) ==
  {NewETag(1, 1), PresetETag} \cup (IF HasPolicy(r) THEN {CurrentETag(r)} ELSE {})

ReplacementSeqs ==
  {<<>>,
   <<[role |-> 1, members |-> Bob, cond |-> NoCond]>>,
   <<[role |-> 2, members |-> Alice, cond |-> NoCond]>>,
   <<[role |-> 1, members |-> Alice, cond |-> "request.time < x"]>>,
   <<[role |-> 1, members |-> Bob, cond |-> NoCond],
     [role |-> 2, members |-> Alice, cond |-> NoCond]>>}

NextPolicy ==
  \/ \E r \in 1..MaxRes, bs \in ReplacementSeqs : CreatePolicy(r, bs)
  \/ \E r \in 1..MaxRes, bs \in ReplacementSeqs, etag \in ETags :
       etag \in ETagInputs(r) /\ UpdatePolicy(r, bs, etag)
  \/ \E r \in 1..MaxRes, etag \in ETags :
       etag \in ETagInputs(r) /\ DeletePolicy(r, etag)
  \/ \E r \in 1..MaxRes, roleID \in 1..MaxRoles, condition \in Conds :
       CreateBinding(r, roleID, <<"user:alice">>, condition)
  \/ \E r \in 1..MaxRes, etag \in {NoETag, PresetETag} : PolicyCreate(r, etag)
  \/ \E p \in Principals, r \in 1..MaxRes, c \in Contexts :
       Check(p, r, "read", c, 0)

SpecPolicy == Init /\ [][NextPolicy]_vars

(***************************************************************************)
(* Properties of the ETag guard and of the policy version.                 *)
(***************************************************************************)
IsUpdate == last.op = "UpdatePolicy"
\* the call found a live policy and its ETag is the one the caller echoed
ETagMatched == last.arg.was.policy # 0 /\ last.arg.etag = last.arg.was.etag
\* the call found a live policy with another ETag: "etag mismatch"
ETagMismatch == last.arg.was.policy # 0 /\ last.arg.etag # last.arg.was.etag

IsDelete == last.op = "DeletePolicy"

\* C14: UpdatePolicy and DeletePolicy called with an ETag that is not the
\* policy's, or for a resource without a live policy, return an error and
\* write nothing: the policy rows and the binding rows are those of before
\* the call, so the live policy of the resource, its version, its ETag and
\* its live bindings are unchanged
C14_RejectedUnchanged ==
  /\ []((IsUpdate \/ IsDelete) /\ ~ETagMatched =>
         /\ ~last.ok
         /\ Snapshot(last.arg.r) = last.arg.was)
  /\ [][(IsUpdate' \/ IsDelete') /\ ~ETagMatched' /\ ops' = ops + 1 /\ now' = now
        => policies' = policies /\ bindings' = bindings]_vars

\* a DeletePolicy with a stale ETag on a policy that has a live binding
C14_Witness ==
  /\ IsDelete /\ ~last.ok /\ ETagMismatch
  /\ last.arg.was.bindings # <<>>
  /\ PolicyGetByResourceID(last.arg.r) = last.arg.was.policy

\* an UpdatePolicy on a resource that has no live policy
C14_WitnessMissing == IsUpdate /\ ~last.ok /\ last.arg.was.policy = 0

\* the call created the policy row of its resource
CreatedPolicy ==
  /\ last.op \in {"CreatePolicy", "CreateBinding", "PolicyCreate"}
  /\ last.arg.was.policy = 0
  /\ PolicyGetByResourceID(last.arg.r) # 0

\* C15: a policy row created by CreatePolicy, by CreateBinding on a
\* resource without a policy, or by the repository's Create has version 1
\* and a non-empty ETag: the ETag the caller set when there is one, else a
\* fresh one that no other policy row carries; a successful UpdatePolicy
\* leaves the version one greater and an ETag different from the previous
\* one
C15_VersionLifecycle ==
  /\ CreatedPolicy =>
       LET policyID == PolicyGetByResourceID(last.arg.r) IN
       /\ policies[policyID].version = 1
       /\ policies[policyID].etag # NoETag
       /\ IF last.arg.etag # NoETag
          THEN policies[policyID].etag = last.arg.etag
          ELSE \A i \in 1..Len(policies) :
                 i # policyID => policies[i].etag # policies[policyID].etag
  /\ IsUpdate /\ last.ok =>
       /\ policies[last.arg.was.policy].version = last.arg.was.version + 1
       /\ policies[last.arg.was.policy].etag # last.arg.was.etag
       /\ policies[last.arg.was.policy].etag # NoETag
  /\ \A i \in 1..Len(policies) : policies[i].version >= 1 /\ policies[i].etag # NoETag

\* a successful UpdatePolicy of a policy created with a preset ETag
C15_Witness ==
  /\ IsUpdate /\ last.ok
  /\ last.arg.was.etag = PresetETag
  /\ policies[last.arg.was.policy].version = 2

\* a policy created by CreateBinding on a resource that had none
C15_WitnessImplicit == CreatedPolicy /\ last.op = "CreateBinding" /\ last.ok

(***************************************************************************)
(* Properties of the replacement of a policy's bindings.                   *)
(***************************************************************************)
\* the live bindings of the policy are the bindings bs, in their order
BindingsAre(policyID, bs) ==
  LET ids == PolicyBindings(policyID) IN
  /\ Len(ids) = Len(bs)
  /\ \A k \in 1..Len(bs) :
       /\ bindings[ids[k]].policy = policyID
       /\ bindings[ids[k]].role = bs[k].role
       /\ bindings[ids[k]].members = bs[k].members
       /\ bindings[ids[k]].cond = bs[k].cond

\* C16: after a successful UpdatePolicy the live bindings of the policy are
\* the new bindings, each with the policy's id, and no binding the policy
\* had before the call is live; the check that follows is allowed only by
\* what the store holds now, so a principal named only by the old bindings
\* is refused
C16_Replacement ==
  /\ IsUpdate /\ last.ok =>
       /\ BindingsAre(last.arg.was.policy, last.arg.bs)
       /\ \A k \in 1..Len(last.arg.was.bindings) :
            ~bindings[last.arg.was.bindings[k]].live
       /\ \A p \in Principals, r \in 1..Len(resources), x \in PermNames, c \in Contexts :
            CheckPermission(p, r, x, c, 0).allowed => Granted(p, r, x)
  /\ IsCheck /\ last.after = "UpdatePolicy" /\ last.afterOk /\ ~last.d.err =>
       /\ ~last.d.hit
       /\ last.d.allowed => Granted(last.p, last.r, last.x)

\* the seed binding named user:alice, UpdatePolicy replaced it, and the
\* check of user:alice that follows is refused
C16_Witness ==
  /\ IsCheck /\ last.after = "UpdatePolicy" /\ last.afterOk /\ ops = 2
  /\ last.p = "user:alice" /\ ~last.d.allowed /\ ~last.d.err
  /\ Len(bindings) >= 2 /\ ~bindings[1].live /\ bindings[2].live
  /\ bindings[2].policy = PolicyGetByResourceID(last.r)

\* C17, as written: when UpdatePolicy returns an error after its ETag test
\* has passed, the live policy of the resource, its version, its ETag and
\* its live bindings are those of before the call
C17_AsWritten ==
  IsUpdate /\ ~last.ok /\ ETagMatched => Snapshot(last.arg.r) = last.arg.was

(***************************************************************************)
(* Conditions.                                                             *)
(***************************************************************************)
\* C19, as written: after a successful CreateBinding with a condition, the
\* binding row it created carries that condition
C19_AsWritten ==
  last.op = "CreateBinding" /\ last.ok /\ last.arg.cond # NoCond =>
    bindings[Len(bindings)].cond = last.arg.cond

(***************************************************************************)
(* Two UpdatePolicy calls, each repository call a step of its own.         *)
(***************************************************************************)
MaxRows == 3

\* UpdatePolicy: policyRepo.GetByResourceID and the ETag test
UpdaterFetch(i, resourceID, bs, etag) ==
  LET policyID == PolicyGetByResourceID(resourceID) IN
  /\ Begin
  /\ inflight.upd[i].pc = "idle"
  /\ IF Rejected(policyID, etag)
     THEN /\ inflight' = [inflight EXCEPT !.upd[i] =
                            [NoUpd EXCEPT !.pc = "done", !.r = resourceID, !.bs = bs,
                                          !.etag = etag]]
          /\ last' = Returned("UpdatePolicy", FALSE)
     ELSE /\ inflight' = [inflight EXCEPT !.upd[i] =
                            [pc |-> "delete", r |-> resourceID, bs |-> bs,
                             etag |-> etag, ok |-> FALSE, policy |-> policyID,
                             row |-> policies[policyID],
                             old |-> PolicyBindings(policyID)]]
          /\ UNCHANGED last
  /\ UNCHANGED <<resources, roles, policies, bindings, cacheKind, maxSize, redisUp, cache, now>>

\* UpdatePolicy: bindingRepo.Delete for each binding read with the policy
UpdaterDelete(i) ==
  LET u == inflight.upd[i] IN
  /\ u.pc = "delete"
  /\ bindings' = [j \in 1..Len(bindings) |->
                   IF \E k \in 1..Len(u.old) : u.old[k] = j
                   THEN Tombstone ELSE bindings[j]]
  /\ inflight' = [inflight EXCEPT !.upd[i].pc = "create"]
  /\ UNCHANGED <<resources, roles, policies, cacheKind, maxSize, redisUp, cache, now, last, ops>>

\* UpdatePolicy: bindingRepo.Create for each new binding
UpdaterCreate(i) ==
  LET u == inflight.upd[i]
      made == CreateRows(bindings, u.bs, u.policy)
  IN /\ u.pc = "create"
     /\ Len(bindings) + Len(u.bs) <= MaxRows
     /\ bindings' = made.rows
     /\ IF made.ok
        THEN /\ inflight' = [inflight EXCEPT !.upd[i].pc = "update"]
             /\ UNCHANGED last
        ELSE /\ inflight' = [inflight EXCEPT !.upd[i].pc = "done"]
             /\ last' = Returned("UpdatePolicy", FALSE)
     /\ UNCHANGED <<resources, roles, policies, cacheKind, maxSize, redisUp, cache, now, ops>>

\* UpdatePolicy: policyRepo.Update saves the struct read at the fetch, after
\* BeforeUpdate has given it a new uuid and incremented its Version
UpdaterSave(i) ==
  LET u == inflight.upd[i] IN
  /\ u.pc = "update"
  /\ policies' = [policies EXCEPT ![u.policy] =
                    [BeforeUpdate(u.policy, u.row) EXCEPT
                       !.etag = NewETag(u.policy, u.row.etag[2] + i)]]
  /\ inflight' = [inflight EXCEPT !.upd[i].pc = "clear"]
  /\ UNCHANGED <<resources, roles, bindings, cacheKind, maxSize, redisUp, cache, now, last, ops>>

\* UpdatePolicy: cache.Clear, and the return
UpdaterClear(i) ==
  /\ inflight.upd[i].pc = "clear"
  /\ cache' = CacheClear(cache)
  /\ last' = Returned("UpdatePolicy", TRUE)
  /\ inflight' = [inflight EXCEPT !.upd[i].pc = "done", !.upd[i].ok = TRUE]
  /\ UNCHANGED <<resources, roles, policies, bindings, cacheKind, maxSize, redisUp, now, ops>>

\* a policy exists, and both callers have read it: they echo its ETag
InitRace == Init /\ policies # <<>>

RaceSeqs ==
  {<<>>,
   <<[role |-> 1, members |-> Bob, cond |-> NoCond]>>,
   <<[role |-> 1, members |-> Alice, cond |-> NoCond]>>,
   <<[role |-> 2, members |-> Alice, cond |-> NoCond]>>}

NextRace ==
  \/ \E i \in Updaters, r \in 1..MaxRes, bs \in RaceSeqs :
       UpdaterFetch(i, r, bs, NewETag(1, 1))
  \/ \E i \in Updaters : UpdaterDelete(i)
  \/ \E i \in Updaters : UpdaterCreate(i)
  \/ \E i \in Updaters : UpdaterSave(i)
  \/ \E i \in Updaters : UpdaterClear(i)

SpecRace == InitRace /\ [][NextRace]_vars

BothReturned == \A i \in Updaters : inflight.upd[i].pc = "done"

\* C13, as written: of two UpdatePolicy calls on the same resource that
\* echo the same ETag, with bindings the store accepts, at most one
\* succeeds; when one has, the live bindings of the policy are its bindings
\* and the version is one greater than the version the calls read
C13_AsWritten ==
  LET a == inflight.upd[1]
      b == inflight.upd[2]
  IN BothReturned /\ a.r = b.r /\ a.etag = b.etag
     /\ Accepted(a.bs) /\ Accepted(b.bs) =>
       /\ ~(a.ok /\ b.ok)
       /\ a.ok => /\ BindingsAre(a.policy, a.bs)
                  /\ policies[a.policy].version = a.row.version + 1
       /\ b.ok => /\ BindingsAre(b.policy, b.bs)
                  /\ policies[b.policy].version = b.row.version + 1

(***************************************************************************)
(* Failures of the store during a check.                                   *)
(***************************************************************************)
\* the walk of a check whose repository read number failAt fails, and the
\* walk of the same check when no read fails
FailedWalk(p, r, x, c, failAt) ==
  LET d  == Evaluate(p, r, x, c, failAt)
      d0 == Evaluate(p, r, x, c, 0)
  IN IF failAt <= d0.reads
     THEN d.err /\ ~d.allowed /\ ~d.write /\ d.reads = failAt
     ELSE d = d0

\* C21: a failing read of the resource, of its ancestors or of the policy of
\* a resource of the chain ends the check there: the check is refused with
\* the error, no further read is made and nothing is written to the cache,
\* whatever the resources after the failing read would have granted; a read
\* the walk does not reach changes nothing
C21_FailurePropagates ==
  /\ [](\A p \in Principals, r \in 1..MaxRes, x \in PermNames, c \in Contexts :
          \A failAt \in 1..MaxFail : FailedWalk(p, r, x, c, failAt))
  /\ [](IsCheck /\ last.d.err => ~last.d.allowed /\ ~last.ok /\ ~last.d.write)
  /\ [][CheckReturned /\ last'.d.err => cache' = cache]_vars

\* the policy fetch of the resource itself has failed in a check that an
\* ancestor, and not the resource, would have granted
C21_Witness ==
  /\ IsCheck /\ last.d.err /\ last.d.reads = 3
  /\ last.d.reason = "Error fetching policy"
  /\ Granted(last.p, last.r, last.x)
  /\ ~GrantsAt(last.r, last.p, last.x)

(***************************************************************************)
(* The reason of a granted check.                                          *)
(***************************************************************************)
\* strings.Contains
Includes(s, t) ==
  \E i \in 1..(Len(s) - Len(t) + 1) : SubSeq(s, i, i + Len(t) - 1) = t

\* the reason names the role of a matching binding of the chain and the
\* resource that binding is attached to
NamesGrant(reason, p, r, x) ==
  \E j \in 1..Len(bindings) :
    /\ Matches(bindings[j], p, x)
    /\ policies[bindings[j].policy].live
    /\ AttachedTo(j) \in Chain(r)
    /\ Includes(reason, "'" \o RoleName(bindings[j].role) \o "'")
    /\ Includes(reason, "'" \o ResIdString(AttachedTo(j)) \o "'")

\* C24, as written: the reason of a granted check includes the name of the
\* granting role and the id of the granting resource, and it carries
\* "(cached)" exactly when the cache answered
C24_AsWritten ==
  IsCheck /\ last.d.allowed =>
    /\ NamesGrant(last.d.reason, last.p, last.r, last.x)
    /\ last.d.hit <=> Includes(last.d.reason, "(cached)")

(***************************************************************************)
(* GetEffectivePermissions.                                                *)
(***************************************************************************)
\* a collection that looks at the resource and not at its ancestors
EffectiveChainSelf(resourceID) == <<resourceID>>

\* GetEffectivePermissions: the resource, then its ancestors
EffectiveChain(resourceID) == <<resourceID>> \o GetAncestors(resourceID)

\* the inner loop of GetEffectivePermissions: the roles, by id, of the
\* bindings of the policy of resID that hold the principal and whose role is
\* loaded; the condition of the binding is not looked at
CollectRoles(principal, resID) ==
  LET policy == PolicyGetByResourceID(resID)
      bs == IF policy = 0 THEN <<>> ELSE PolicyBindings(policy)
  IN {bindings[bs[k]].role : k \in {i \in 1..Len(bs) :
        /\ HasMember(bindings[bs[i]].members, principal)
        /\ RoleLoaded(bindings[bs[i]].role)}}

EffectiveResult(err, roleIDs, failAt, reads) ==
  [NoOut EXCEPT !.err = err, !.failAt = failAt, !.reads = reads,
                !.roles = {RoleName(i) : i \in roleIDs},
                !.perms = UNION {roles[i].perms : i \in roleIDs}]

\* permissionEvaluator.GetEffectivePermissions; failAt names the repository
\* read that fails (0: none).  The resource whose policy fetch fails is
\* skipped ("continue") and the call goes on
GetEffectivePermissions(principal, resourceID, failAt) ==
  IF failAt = 1 THEN EffectiveResult("fetch failed", {}, failAt, 1)
  ELSE IF ~ResourceGetByID(resourceID)
  THEN EffectiveResult("resource not found", {}, failAt, 1)
  ELSE IF failAt = 2 THEN EffectiveResult("fetch failed", {}, failAt, 2)
  ELSE LET chain == EffectiveChain(resourceID)
           read  == {k \in 1..Len(chain) : failAt # 2 + k}
       IN EffectiveResult("", UNION {CollectRoles(principal, chain[k]) : k \in read},
                          failAt, 2 + Len(chain))

\* IAMService.GetEffectivePermissions
Effective(principal, resourceID, failAt) ==
  LET out == GetEffectivePermissions(principal, resourceID, failAt) IN
  /\ Call
  /\ last' = [Returned("GetEffectivePermissions", out.err = "") EXCEPT
                !.p = principal, !.r = resourceID, !.out = out]
  /\ UNCHANGED <<resources, roles, policies, bindings, cacheKind, maxSize, redisUp,
                 cache, now>>

\* the facade calls that change what GetEffectivePermissions reads, and
\* GetEffectivePermissions with and without a failing repository read
NextEffective ==
  \/ \E parentID \in 0..MaxRes : CreateResource(parentID)
  \/ \E id \in 1..MaxRes : ResourceGetByID(id) /\ DeleteResource(id)
  \/ \E id \in 1..MaxRoles : RoleLoaded(id) /\ DeleteRole(id)
  \/ \E r \in 1..MaxRes, bs \in BindingSeqs :
       PolicyCreateOk(r) /\ Accepted(bs) /\ CreatePolicy(r, bs)
  \/ \E r \in 1..MaxRes : HasPolicy(r) /\ DeletePolicy(r, CurrentETag(r))
  \/ \E r \in 1..MaxRes, roleID \in 1..MaxRoles :
       /\ HasPolicy(r) \/ PolicyCreateOk(r)
       /\ roleID \in 1..Len(roles)
       /\ CreateBinding(r, roleID, <<"user:alice">>, NoCond)
  \/ \E id \in 1..MaxBindings : BindingLive(id) /\ DeleteBinding(id)
  \/ \E p \in Principals, r \in 1..MaxRes : Effective(p, r, 0)
  \/ \E p \in Principals, r \in 1..MaxRes, failAt \in 1..MaxFail + 1 :
       Effective(p, r, failAt)

SpecEffective == Init /\ [][NextEffective]_vars

IsEffective == last.op = "GetEffectivePermissions"

\* C22, as written: when a repository read of GetEffectivePermissions fails,
\* the resource fetch, the ancestors fetch or the policy fetch of a resource
\* of the chain, the call returns the error and no role or permission set
C22_AsWritten ==
  IsEffective /\ last.out.failAt \in 1..last.out.reads =>
    ~last.ok /\ last.out.roles = {} /\ last.out.perms = {}

\* binding j contributes to what principal p holds on resource r: it is a
\* live binding of a live policy of a resource of the chain of r, its
\* members hold p, its condition, if any, is accepted, and its role exists
Contributes(j, p, r) ==
  /\ bindings[j].live
  /\ \E i \in 1..Len(policies) :
       policies[i].live /\ bindings[j].policy = i /\ policies[i].res \in Chain(r)
  /\ LET got == GetMembers(bindings[j].members)
     IN ~got.err /\ \E k \in 1..Len(got.members) : got.members[k] = p
  /\ bindings[j].cond = NoCond \/ \E c \in Contexts : evaluateCondition(bindings[j].cond, c)
  /\ RoleLoaded(bindings[j].role)

ContributingRoles(p, r) ==
  {bindings[j].role : j \in {i \in 1..Len(bindings) : Contributes(i, p, r)}}

MaxCacheOps == 4

Keys == {"key1", "key2", "key3"}
CacheTypes == {"", "none", "memory", "Memory", "redis", "memcached"}

\* config.CacheConfig: the fields the cache reads
Configs == [type : CacheTypes, enabled : BOOLEAN, maxSize : 0..MaxSize]

\* strings.ToLower on the cache types
ToLower(s) == IF s = "Memory" THEN "memory" ELSE s

\* NewCacheService: a cacheService, enabled as the configuration says
NewCacheService(cfg) == IF cfg.enabled THEN "memory" ELSE "disabled"

\* NewRedisCache: the connection is tested with a ping
NewRedisCache == [err |-> ~redisUp, kind |-> "redis"]

\* a factory that looks at the type and not at enabled
NewCacheByType(cfg) ==
  LET cacheType == ToLower(cfg.type) IN
  IF cacheType \in {"none", ""} THEN [err |-> FALSE, kind |-> "none"]
  ELSE IF cacheType = "memory" THEN [err |-> FALSE, kind |-> NewCacheService(cfg)]
  ELSE IF cacheType = "redis" THEN NewRedisCache
  ELSE [err |-> TRUE, kind |-> ""]

\* NewCache
NewCache(cfg) ==
  LET cacheType == ToLower(cfg.type) IN
  IF ~cfg.enabled THEN [err |-> FALSE, kind |-> "none"]
  ELSE IF cacheType \in {"none", ""} THEN [err |-> FALSE, kind |-> "none"]
  ELSE IF cacheType = "memory" THEN [err |-> FALSE, kind |-> NewCacheService(cfg)]
  ELSE IF cacheType = "redis" THEN NewRedisCache
  ELSE [err |-> TRUE, kind |-> ""]

\* what the calls made so far say of a key: whether a Set of the key has
\* been made that no Delete of the key and no Clear has followed, its value
\* and its time, and whether a later Set found the map at its capacity
NoSet == [set |-> FALSE, value |-> FALSE, at |-> 0, capped |-> FALSE]

CacheCall == ops < MaxCacheOps /\ ops' = ops + 1 /\ UNCHANGED inflight

CacheReturned(op, key, value, found, hist) ==
  [Returned(op, TRUE) EXCEPT
     !.out.key = key, !.out.value = value, !.out.found = found,
     !.out.at = now, !.out.hist = hist]

\* CacheService.Get
Get(key) ==
  LET got == CacheGet(key) IN
  /\ CacheCall
  /\ last' = CacheReturned("Get", key, got.found /\ got.value, got.found, last.out.hist)
  /\ UNCHANGED <<resources, roles, policies, bindings, cacheKind, maxSize, redisUp,
                 cache, now>>

\* CacheService.Set
Set(key, value) ==
  LET atCapacity == Cardinality(DOMAIN cache) >= maxSize IN
  /\ CacheCall
  /\ cache' = CacheSet(cache, key, value)
  /\ last' = CacheReturned("Set", key, value, FALSE,
               [k \in Keys |->
                  IF k = key
                  THEN [set |-> TRUE, value |-> value, at |-> now, capped |-> FALSE]
                  ELSE [last.out.hist[k] EXCEPT !.capped = @ \/ atCapacity]])
  /\ UNCHANGED <<resources, roles, policies, bindings, cacheKind, maxSize, redisUp, now>>

\* CacheService.Delete
Delete(key) ==
  /\ CacheCall
  /\ cache' = CacheDelete(cache, key)
  /\ last' = CacheReturned("Delete", key, FALSE, FALSE,
                           [last.out.hist EXCEPT ![key] = NoSet])
  /\ UNCHANGED <<resources, roles, policies, bindings, cacheKind, maxSize, redisUp, now>>

\* CacheService.Clear
Clear ==
  /\ CacheCall
  /\ cache' = CacheClear(cache)
  /\ last' = CacheReturned("Clear", "", FALSE, FALSE, [k \in Keys |-> NoSet])
  /\ UNCHANGED <<resources, roles, policies, bindings, cacheKind, maxSize, redisUp, now>>

\* cacheService.cleanup: the goroutine of an enabled cacheService sweeps the
\* map when its ticker fires
cleanup ==
  /\ cacheKind = "memory"
  /\ evictExpired(cache) # cache
  /\ cache' = evictExpired(cache)
  /\ UNCHANGED <<resources, roles, policies, bindings, cacheKind, maxSize, redisUp,
                 now, last, ops, inflight>>

\* time passes between two calls of the cache
Elapse(d) ==
  /\ now + d <= MaxTime
  /\ now' = now + d
  /\ UNCHANGED <<resources, roles, policies, bindings, cacheKind, maxSize, redisUp,
                 cache, last, ops, inflight>>

\* a cache made by NewCache, as the server makes it, or by NewCacheService,
\* as the seed program and the tests make it; the redis cache is left to
\* SpecShared
InitCache ==
  /\ resources = <<>> /\ roles = <<>> /\ policies = <<>> /\ bindings = <<>>
  /\ redisUp = TRUE
  /\ \E cfg \in Configs :
       /\ maxSize = cfg.maxSize
       /\ \/ ~NewCache(cfg).err /\ cacheKind = NewCache(cfg).kind /\ cacheKind # "redis"
          \/ ToLower(cfg.type) = "memory" /\ cacheKind = NewCacheService(cfg)
  /\ cache = EmptyMap
  /\ now = 0
  /\ ops = 0
  /\ inflight = Idle
  /\ last = CacheReturned("New", "", FALSE, FALSE, [k \in Keys |-> NoSet])

NextCache ==
  \/ \E key \in Keys : Get(key)
  \/ \E key \in Keys, value \in BOOLEAN : Set(key, value)
  \/ \E key \in Keys : Delete(key)
  \/ Clear
  \/ cleanup
  \/ \E d \in 1..MaxTime : Elapse(d)

SpecCache == InitCache /\ [][NextCache]_vars

IsGet == last.op = "Get"
Switched == cacheKind \in {"none", "disabled"}

\* C25: the no-op cache and the cacheService made with enabled = false
\* answer every Get with a miss and keep no entry, whatever Set, Delete and
\* Clear calls were made; NewCache returns the no-op cache for every
\* configuration with enabled = false, whatever its type
C25_NoopCache ==
  /\ Switched /\ IsGet => ~last.out.found /\ last.out.value = FALSE
  /\ Switched => cache = EmptyMap /\ \A key \in Keys : ~CacheGet(key).found
  /\ \A cfg \in Configs : ~cfg.enabled => NewCache(cfg) = [err |-> FALSE, kind |-> "none"]

\* a Get on a switched-off cache that follows a Set of the same key
C25_Witness ==
  /\ Switched /\ IsGet /\ ~last.out.found
  /\ last.out.hist[last.out.key].set
  /\ last.out.hist[last.out.key].value

\* the same on the cacheService made with enabled = false and type "memory"
C25_WitnessDisabled == cacheKind = "disabled" /\ C25_Witness

Memory == cacheKind = "memory"
CacheCallReturned(op) == ops' = ops + 1 /\ last'.op = op

\* C26: on an enabled cacheService, a Get that hits returns the value of the
\* most recent Set of its key, and that Set has not been followed by a
\* Delete of the key or by a Clear; a Get hits with that value when no later
\* Set has found the map at its capacity and the time to live of the entry
\* has not elapsed; Delete removes its key and leaves every other entry as
\* it is; Clear removes every entry
C26_MapSemantics ==
  /\ [](Memory /\ IsGet =>
          LET h == last.out.hist[last.out.key] IN
          /\ last.out.found => h.set /\ last.out.value = h.value
          /\ h.set /\ ~h.capped /\ last.out.at <= h.at + TTL =>
               last.out.found /\ last.out.value = h.value)
  /\ [][Memory /\ CacheCallReturned("Delete") =>
          /\ last'.out.key \notin DOMAIN cache'
          /\ \A k \in Keys \ {last'.out.key} :
               /\ k \in DOMAIN cache <=> k \in DOMAIN cache'
               /\ k \in DOMAIN cache => cache'[k] = cache[k]]_vars
  /\ [][Memory /\ CacheCallReturned("Clear") => cache' = EmptyMap]_vars

\* a Get hits, with the value true, while a second key is stored and the
\* third is not
C26_Witness ==
  /\ Memory /\ IsGet /\ last.out.found /\ last.out.value
  /\ Cardinality(DOMAIN cache) = 2
  /\ \E k \in Keys : k \notin DOMAIN cache /\ ~last.out.hist[k].set

\* C27: every entry of an enabled cacheService carries the time of its Set
\* plus the time to live as its expiration; a Get made after that time
\* misses; and a Get leaves the map as it is, the expired entry included
C27_Expiry ==
  /\ [](Memory => \A k \in DOMAIN cache :
          /\ last.out.hist[k].set
          /\ cache[k].expiration = last.out.hist[k].at + TTL
          /\ cache[k].value = last.out.hist[k].value)
  /\ [](Memory /\ IsGet =>
          LET h == last.out.hist[last.out.key] IN
          h.set /\ last.out.at > h.at + TTL => ~last.out.found)
  /\ [][CacheCallReturned("Get") => cache' = cache]_vars

\* a Get has missed on an entry that is past its expiration and still stored
C27_Witness ==
  /\ Memory /\ IsGet /\ ~last.out.found
  /\ last.out.key \in DOMAIN cache
  /\ last.out.at > cache[last.out.key].expiration
  /\ last.out.at = now

\* C28, as written: an enabled cacheService never stores more entries than
\* its configured maximum, whatever the maximum, and a Set leaves its key
\* stored with its value
C28_AsWritten ==
  /\ [](Memory => Cardinality(DOMAIN cache) <= maxSize)
  /\ [][Memory /\ CacheCallReturned("Set") =>
          /\ last'.out.key \in DOMAIN cache'
          /\ cache'[last'.out.key].value = last'.out.value]_vars

(***************************************************************************)
(* The redis cache under the evaluator: commands that fail and values that *)
(* do not decode.                                                          *)
(***************************************************************************)
\* values another Set has left under a key of the evaluator: interface{}
\* values that are not a bool, as their JSON text
RawValues == {"\"value1\"", "null", "tru"}

CheckKeys == {GenerateCacheKey("user:alice", ResIdString(r), "read") : r \in 1..MaxRes}

\* the redis server becomes unreachable, or reachable again
Outage ==
  /\ Mutation
  /\ redisUp' = ~redisUp
  /\ UNCHANGED <<resources, roles, policies, bindings, cacheKind, maxSize, cache, now, last>>

\* client.Set of a value that is not the JSON text of a bool, by a Set of
\* the interface with another value or by another client of the server
SetRaw(key, raw) ==
  /\ Mutation
  /\ redisUp
  /\ cache' = [k \in DOMAIN cache \cup {key} |->
                 IF k = key THEN [value |-> raw, expiration |-> now + TTL] ELSE cache[k]]
  /\ UNCHANGED <<resources, roles, policies, bindings, cacheKind, maxSize, redisUp, now, last>>

InitShared ==
  /\ InitStore
  /\ policies # <<>>
  /\ cacheKind = "redis"
  /\ maxSize = MaxSize
  /\ redisUp = TRUE
  /\ NewCache([type |-> "redis", enabled |-> TRUE, maxSize |-> MaxSize]).kind = cacheKind
  /\ cache = EmptyMap
  /\ now = 0
  /\ last = Returned("New", TRUE)
  /\ ops = 0
  /\ inflight = Idle

NextShared ==
  \/ Outage
  \/ \E key \in CheckKeys, raw \in RawValues : SetRaw(key, raw)
  \/ \E id \in 1..MaxRoles : RoleLoaded(id) /\ DeleteRole(id)
  \/ \E id \in 1..MaxBindings : BindingLive(id) /\ DeleteBinding(id)
  \/ \E r \in 1..MaxRes, c \in Contexts : Check("user:alice", r, "read", c, 0)
  \/ \E r \in 1..MaxRes, c \in Contexts, failAt \in 1..MaxFail :
       Check("user:alice", r, "read", c, failAt)
  \/ \E d \in 1..MaxTime : Tick(d)

SpecShared == InitShared /\ [][NextShared]_vars

\* the Get of the redis cache fails on this key: the command fails, or the
\* value stored under the key is not the JSON text of a bool
GetFails(key) ==
  \/ ~redisUp
  \/ key \in DOMAIN cache /\ cache[key].value \notin {"true", "false", "null"}

\* C29: a check made with the redis cache while the Get of its key fails is
\* not answered from the cache; it returns what the walk of the store
\* returns, which is what it returns with the no-op cache: an error when a
\* repository read fails, and otherwise allowed exactly when the store
\* grants; and while the commands fail, the Set of a granted check stores
\* nothing and the check returns without an error
C29_CacheHint ==
  [][/\ cacheKind = "redis" /\ CheckReturned
     /\ GetFails(GenerateCacheKey(last'.p, ResIdString(last'.r), last'.x))
     => /\ ~last'.d.hit
        /\ last'.d.err => ~last'.d.allowed
        /\ ~last'.d.err => (last'.d.allowed <=> Granted(last'.p, last'.r, last'.x))
        /\ \A c \in Contexts :
             LET failAt == IF last'.d.err THEN last'.d.reads ELSE 0
                 walked == Evaluate(last'.p, last'.r, last'.x, c, failAt)
             IN last'.d.allowed = walked.allowed /\ last'.d.err = walked.err
        /\ ~redisUp => cache' = cache]_vars

\* a check made while the server is unreachable, on a key that holds an
\* unexpired true entry: the entry does not answer, the store is walked and
\* grants, and the Set of the grant is dropped
C29_Witness ==
  /\ cacheKind = "redis" /\ ~redisUp /\ IsCheck /\ ~last.d.hit /\ ~last.d.err
  /\ last.d.allowed /\ last.d.write /\ last.d.reads >= 3
  /\ LET key == GenerateCacheKey(last.p, ResIdString(last.r), last.x)
     IN key \in DOMAIN cache /\ cache[key].value = "true" /\ now < cache[key].expiration

\* a check made on a key whose value does not decode: the store is walked
C29_WitnessUndecodable ==
  /\ cacheKind = "redis" /\ redisUp /\ IsCheck /\ ~last.d.hit /\ ~last.d.err
  /\ ~last.d.allowed
  /\ LET key == GenerateCacheKey(last.p, ResIdString(last.r), last.x)
     IN key \in DOMAIN cache /\ cache[key].value = "\"value1\""

(***************************************************************************)
(* Deletes of entities that are not there.                                 *)
(***************************************************************************)
\* the deletes of the facade, called with the ids of live rows, of rows
\* already deleted and of rows that never existed
NextDelete ==
  \/ \E id \in 1..MaxRes + 1 : DeleteResource(id)
  \/ \E id \in 1..MaxRoles + 1 : DeleteRole(id)
  \/ \E id \in 1..MaxBindings + 1 : DeleteBinding(id)
  \/ \E r \in 1..MaxRes + 1 :
       DeletePolicy(r, IF HasPolicy(r) THEN CurrentETag(r) ELSE NoETag)

SpecDelete == Init /\ [][NextDelete]_vars

\* the call that has returned is a delete of an entity that had no live row
DeleteOfMissing ==
  \/ last.op \in {"DeleteResource", "DeleteRole", "DeleteBinding"} /\ ~last.out.existed
  \/ last.op = "DeletePolicy" /\ last.arg.was.policy = 0

\* C30, as written: a delete of a resource, a role, a binding or a policy
\* that is already deleted or never existed returns an error, and it leaves
\* every stored row as it was
C30_AsWritten ==
  /\ [](DeleteOfMissing => ~last.ok)
  /\ [][ops' = ops + 1 /\ DeleteOfMissing' => store' = store]_vars

(***************************************************************************)
(* What a delete of a resource leaves behind.                              *)
(***************************************************************************)
\* C31, as written: the parent of every live resource is absent or is a
\* live resource
C31_AsWritten ==
  \A i \in 1..Len(resources) :
    resources[i].live =>
      resources[i].parent = 0 \/ ResourceGetByID(resources[i].parent)

\* C32, as written: once DeleteResource has returned, the resource has no
\* live policy and no binding of a policy of the resource is live
C32_AsWritten ==
  last.op = "DeleteResource" /\ last.ok =>
    /\ PolicyGetByResourceID(last.out.id) = 0
    /\ \A j \in 1..Len(bindings) :
         bindings[j].live => policies[bindings[j].policy].res # last.out.id

\* C33, as written: no resource has two live policies, and every live
\* binding belongs to a live policy
C33_AsWritten ==
  /\ \A i, k \in 1..Len(policies) :
       policies[i].live /\ policies[k].live /\ policies[i].res = policies[k].res => i = k
  /\ \A j \in 1..Len(bindings) :
       bindings[j].live =>
         bindings[j].policy \in 1..Len(policies) /\ policies[bindings[j].policy].live

(***************************************************************************)
(* The ancestors of a resource.                                            *)
(***************************************************************************)
\* Resource.GetAncestors of the domain package: db.First on the parent id,
\* one row at a time; a parent row that is soft-deleted is not found and the
\* walk returns the error with the ancestors found so far
RECURSIVE ResourceGetAncestors(_)
ResourceGetAncestors(id) ==
  LET parent == resources[id].parent IN
  IF parent = 0 THEN [ancestors |-> <<>>, err |-> FALSE]
  ELSE IF ~ResourceGetByID(parent) THEN [ancestors |-> <<>>, err |-> TRUE]
  ELSE LET up == ResourceGetAncestors(parent)
       IN [ancestors |-> <<parent>> \o up.ancestors, err |-> up.err]

\* the sequence lists, from the parent on, each resource followed by its
\* parent, up to a resource that has no live parent
ParentByParent(r, s) ==
  /\ s = <<>> <=> ~(resources[r].parent # 0 /\ ResourceGetByID(resources[r].parent))
  /\ s # <<>> =>
       /\ s[1] = resources[r].parent
       /\ \A i \in 1..(Len(s) - 1) : s[i + 1] = resources[s[i]].parent
       /\ LET top == resources[s[Len(s)]].parent
          IN top = 0 \/ ~ResourceGetByID(top)

C35_AsWritten ==
  [][/\ Memory /\ CacheCallReturned("Set")
     /\ \/ last'.out.key \in DOMAIN cache
        \/ Cardinality(DOMAIN evictExpired(cache)) < maxSize
     => \A k \in DOMAIN evictExpired(cache) \ {last'.out.key} :
          k \in DOMAIN cache' /\ cache'[k] = cache[k]]_vars

(***************************************************************************)
(* The order in which a check meets the rows.  The ancestors query and     *)
(* Preload("Bindings") carry no ORDER BY: the rows may come in any order.  *)
(***************************************************************************)
\* the orders in which rows can be delivered, as a rank for every id
ResourceOrders == Permutations(1..MaxRes)
BindingOrders == Permutations(1..MaxBindings)

\* a sequence of ids, listed by rank
InOrder(s, rank) == SortSeq(s, LAMBDA a, b : rank[a] < rank[b])

\* permissionEvaluator.checkResourcePermission with the bindings of the
\* policy delivered in the order of rank
checkResourcePermissionIn(rank, principal, resourceID, permission, context) ==
  LET policy == PolicyGetByResourceID(resourceID) IN
  IF policy = 0
  THEN [allowed |-> FALSE, reason |-> "No policy found for resource", via |-> 0]
  ELSE ScanBindings(InOrder(PolicyBindings(policy), rank), principal, resourceID,
                    permission, context)

\* the loop over the hierarchy in CheckPermission, every read succeeding,
\* with the bindings delivered in the order of rank
RECURSIVE WalkChainIn(_, _, _, _, _, _, _)
WalkChainIn(rs, rank, principal, permission, context, nread, seen) ==
  IF rs = <<>>
  THEN Decision(FALSE, "Permission denied: no matching policy found", FALSE, FALSE,
                nread, FALSE, 0, seen)
  ELSE LET resID == Head(rs)
           c == checkResourcePermissionIn(rank, principal, resID, permission, context)
       IN IF c.allowed
          THEN Decision(TRUE, c.reason, FALSE, FALSE,
                        nread + 1, TRUE, c.via, seen \cup {resID})
          ELSE WalkChainIn(Tail(rs), rank, principal, permission, context,
                           nread + 1, seen \cup {resID})

\* permissionEvaluator.CheckPermission after the cache probe, the chain
\* visited in the order of visit and the bindings delivered in the order of
\* rank
EvaluateIn(visit, rank, principal, resourceID, permission, context) ==
  IF ~ResourceGetByID(resourceID)
  THEN Decision(FALSE, "Resource not found", FALSE, FALSE, 1, FALSE, 0, {})
  ELSE WalkChainIn(InOrder(<<resourceID>> \o GetAncestors(resourceID), visit), rank,
                   principal, permission, context, 2, {})

\* IAMService.CheckPermission, the rows delivered in the given orders
CheckIn(visit, rank, principal, resourceID, permission, context) ==
  LET d == IF Probe(principal, resourceID, permission) THEN Cached
           ELSE EvaluateIn(visit, rank, principal, resourceID, permission, context)
      cacheKey == GenerateCacheKey(principal, ResIdString(resourceID), permission)
  IN /\ Call
     /\ cache' = IF d.write THEN CacheSet(cache, cacheKey, TRUE) ELSE cache
     /\ last' = [op |-> "CheckPermission", ok |-> ~d.err,
                 after |-> last.op, afterOk |-> last.ok,
                 warm |-> last.op # "CheckPermission" /\ last.warm,
                 p |-> principal, r |-> resourceID, x |-> permission, d |-> d,
                 arg |-> NoArg, out |-> NoOut]
     /\ UNCHANGED <<resources, roles, policies, bindings, cacheKind, maxSize, redisUp, now>>

NextOrder ==
  \/ \E parentID \in 0..MaxRes : CreateResource(parentID)
  \/ \E r \in 1..MaxRes, roleID \in 1..MaxRoles :
       /\ HasPolicy(r) \/ PolicyCreateOk(r)
       /\ roleID \in 1..Len(roles)
       /\ CreateBinding(r, roleID, <<"user:alice">>, NoCond)
  \/ \E id \in 1..MaxBindings : BindingLive(id) /\ DeleteBinding(id)
  \/ \E visit \in ResourceOrders, rank \in BindingOrders :
       \E r \in 1..MaxRes, x \in PermNames, c \in Contexts :
         CheckIn(visit, rank, "user:alice", r, x, c)

SpecOrder == Init /\ [][NextOrder]_vars

\* C36: with every read succeeding and no entry in the cache, a check
\* returns the same allowed value whatever the order in which the resources
\* of the chain are visited and the bindings of a policy are met: the value
\* of the order the code builds, which is whether the store grants
C36_OrderIndependent ==
  /\ IsCheck /\ ~last.d.hit =>
       /\ \A c \in Contexts :
            last.d.allowed = Evaluate(last.p, last.r, last.x, c, 0).allowed
       /\ last.d.allowed <=> Granted(last.p, last.r, last.x)
  /\ cache = EmptyMap =>
       \A visit \in ResourceOrders, rank \in BindingOrders :
         \A r \in 1..MaxRes, x \in PermNames, c \in Contexts :
           EvaluateIn(visit, rank, "user:alice", r, x, c).allowed
             = Evaluate("user:alice", r, x, c, 0).allowed

\* a check granted through another binding than the one the order of the
\* code meets first: the reason differs, the allowed value does not
C36_Witness ==
  /\ IsCheck /\ ~last.d.hit /\ last.d.allowed
  /\ \E c \in Contexts :
       LET d == Evaluate(last.p, last.r, last.x, c, 0)
       IN d.allowed /\ d.reason # last.d.reason /\ d.via # last.d.via

\* the same, the two bindings being on the same resource
C36_WitnessBindings ==
  /\ C36_Witness
  /\ \E c \in Contexts :
       AttachedTo(Evaluate(last.p, last.r, last.x, c, 0).via) = AttachedTo(last.d.via)

(***************************************************************************)
(* Binding edits, replacements and checks on a resource that has a policy. *)
(***************************************************************************)
InitEdit ==
  /\ resources \in Forests
  /\ roles \in RoleSeeds
  /\ \E r \in 1..Len(resources), roleID \in 1..Len(roles) :
       /\ policies = SeedPolicy(r)
       /\ bindings \in {<<>>, SeedBinding(roleID)}
  /\ cacheKind = "memory"
  /\ maxSize = MaxSize
  /\ redisUp = TRUE
  /\ cache = EmptyMap
  /\ now = 0
  /\ last = [Returned("New", TRUE) EXCEPT !.warm = FALSE]
  /\ ops = 0
  /\ inflight = Idle

NextEdit ==
  \/ \E r \in 1..MaxRes, roleID \in 1..MaxRoles :
       CreateBinding(r, roleID, <<"user:alice">>, NoCond)
  \/ \E id \in 1..MaxBindings : DeleteBinding(id)
  \/ \E r \in 1..MaxRes, bs \in ReplacementSeqs, etag \in ETags :
       etag \in ETagInputs(r) /\ UpdatePolicy(r, bs, etag)
  \/ \E p \in Principals, r \in 1..MaxRes, c \in Contexts :
       Check(p, r, "read", c, 0)

SpecEdit == InitEdit /\ [][NextEdit]_vars

\* the cache answers true for the triple and the store does not grant it
StaleGrant(p, r, x) == Probe(p, r, x) /\ ~Granted(p, r, x)

\* the call that returned last has removed binding rows
RemovedBindings ==
  \/ IsUpdate /\ ETagMatched /\ last.arg.was.bindings # <<>>
  \/ last.op = "DeleteBinding" /\ last.out.existed

\* C37, as written: once a facade call that removed stored bindings has
\* returned, with or without an error, the cache answers true for no triple
\* that the store does not grant, and the check that follows such a call
\* without a delay returns false for every triple the store does not grant
C37_AsWritten ==
  /\ [](RemovedBindings => \A p \in Principals, r \in 1..MaxRes, x \in PermNames :
                             ~StaleGrant(p, r, x))
  /\ [][RemovedBindings /\ CheckReturned /\ ~Granted(last'.p, last'.r, last'.x)
          => ~last'.d.allowed]_vars

\* the same for the calls that return without an error: it holds
C37_Succeeded ==
  RemovedBindings /\ last.ok =>
    \A p \in Principals, r \in 1..MaxRes, x \in PermNames : ~StaleGrant(p, r, x)

(***************************************************************************)
(* Binding edits and the ETag of the policy.                               *)
(***************************************************************************)
\* a CreateBinding on a resource that had a policy, or a DeleteBinding, returns
EditReturned ==
  /\ ops' = ops + 1
  /\ \/ last'.op = "DeleteBinding"
     \/ last'.op = "CreateBinding" /\ last'.arg.was.policy # 0

\* the UpdatePolicy that returned last has succeeded: the live bindings of
\* the policy are the ones it was given, none of the earlier ones is live,
\* the version has grown by one and the ETag is a new one
Replaced ==
  /\ IsUpdate /\ last.ok
  /\ BindingsAre(last.arg.was.policy, last.arg.bs)
  /\ \A k \in 1..Len(last.arg.was.bindings) :
       ~bindings[last.arg.was.bindings[k]].live
  /\ policies[last.arg.was.policy].version = last.arg.was.version + 1
  /\ policies[last.arg.was.policy].etag # last.arg.was.etag

\* an UpdatePolicy returns right after a CreateBinding on the same resource,
\* which had a policy, and carries the ETag the policy had before that call
UpdateAfterCreate ==
  /\ last.op = "CreateBinding" /\ last.arg.was.policy # 0
  /\ ops' = ops + 1 /\ last'.op = "UpdatePolicy"
  /\ last'.arg.r = last.arg.r
  /\ last'.arg.etag = last.arg.was.etag

\* an UpdatePolicy returns right after a DeleteBinding and carries the ETag
\* the policy has, which is the one it had before the DeleteBinding
UpdateAfterDelete ==
  /\ last.op = "DeleteBinding"
  /\ ops' = ops + 1 /\ last'.op = "UpdatePolicy"
  /\ HasPolicy(last'.arg.r)
  /\ last'.arg.etag = CurrentETag(last'.arg.r)

\* C38: a CreateBinding on a resource that already has a policy, and a
\* DeleteBinding, leave every policy row as it was, version and ETag
\* included, also when they add or remove a binding; an UpdatePolicy that
\* follows such an edit and carries the ETag the policy had before it, with
\* bindings the store accepts, succeeds and replaces the edited bindings
C38_EditsBypassETag ==
  /\ [][EditReturned => policies' = policies]_vars
  /\ [][UpdateAfterCreate /\ Accepted(last'.arg.bs) => Replaced']_vars
  /\ [][UpdateAfterDelete /\ Accepted(last'.arg.bs) => Replaced']_vars

\* a CreateBinding has added a binding to a policy that existed, and the
\* policy row has the version and the ETag it had before the call
C38_Witness ==
  /\ last.op = "CreateBinding" /\ last.ok
  /\ last.arg.was.policy # 0
  /\ Len(PolicyBindings(last.arg.was.policy)) = Len(last.arg.was.bindings) + 1
  /\ policies[last.arg.was.policy].version = last.arg.was.version
  /\ policies[last.arg.was.policy].etag = last.arg.was.etag

\* a DeleteBinding has removed the binding of a policy
C38_WitnessDelete ==
  /\ last.op = "DeleteBinding" /\ last.out.existed
  /\ ~bindings[last.out.id].live
  /\ policies = SeedPolicy(policies[1].res)

\* an UpdatePolicy with the ETag of the creation has replaced the bindings
\* of a policy whose bindings were not the ones it was created with
C38_WitnessUpdate ==
  /\ Replaced
  /\ last.arg.etag = SeedPolicy(last.arg.r)[1].etag
  /\ last.arg.was.bindings # <<>>
  /\ last.arg.bs # <<>>
  /\ ops = 2

(***************************************************************************)
(* The resource table with the columns a caller sets: type, name,          *)
(* parent_id and attributes.  The id of a row is its position: uuid.New    *)
(* gives a value no row has.                                               *)
(***************************************************************************)
ResourceTypes == {"project", "bucket"}
ResourceNames == {"a", "b"}
AttributeMaps == {[region |-> "eu"], [region |-> "us"]}

\* Resource.BeforeCreate: an id is drawn when the caller has set none
ResourceBeforeCreate(id) == IF id = 0 THEN Len(resources) + 1 ELSE id

\* IAMService.CreateResource: the struct is built without an id
CreateResourceOf(resourceType, name, parentID, attributes) ==
  LET id == ResourceBeforeCreate(0) IN
  /\ Mutation
  /\ Len(resources) < MaxRes
  /\ parentID \in 0..Len(resources)
  /\ resources' = [i \in 1..Len(resources) + 1 |->
                     IF i = id
                     THEN [type |-> resourceType, name |-> name, parent |-> parentID,
                           attrs |-> attributes, live |-> TRUE]
                     ELSE resources[i]]
  /\ last' = [Returned("CreateResource", TRUE) EXCEPT !.out.id = id]
  /\ UNCHANGED <<roles, policies, bindings, cacheKind, maxSize, redisUp, cache, now>>

\* an UpdateResource that also moves the resource under the newest row
UpdateResourceReparent(id, name, attributes) ==
  /\ Mutation
  /\ ResourceGetByID(id)
  /\ resources' = [resources EXCEPT ![id].name = name, ![id].attrs = attributes,
                                    ![id].parent = Len(resources)]
  /\ last' = [Returned("UpdateResource", TRUE) EXCEPT !.out.id = id]
  /\ UNCHANGED <<roles, policies, bindings, cacheKind, maxSize, redisUp, cache, now>>

\* IAMService.UpdateResource: GetByID, then Name and Attributes are set and
\* the row is saved
UpdateResource(id, name, attributes) ==
  /\ Mutation
  /\ IF ~ResourceGetByID(id)
     THEN /\ last' = [Returned("UpdateResource", FALSE) EXCEPT !.out.id = id]
          /\ UNCHANGED resources
     ELSE /\ resources' = [resources EXCEPT ![id].name = name,
                                            ![id].attrs = attributes]
          /\ last' = [Returned("UpdateResource", TRUE) EXCEPT !.out.id = id]
  /\ UNCHANGED <<roles, policies, bindings, cacheKind, maxSize, redisUp, cache, now>>

\* the tables CreateResource calls can have built
NamedForests ==
  UNION {{f \in [1..n -> [type : {"project"}, name : {"a"}, parent : 0..MaxRes,
                          attrs : {[region |-> "eu"]}, live : {TRUE}]] :
            \A i \in 1..n : f[i].parent < i} : n \in 1..MaxRes - 1}

InitHierarchy ==
  /\ resources \in NamedForests
  /\ roles = <<[perms |-> {"read"}, live |-> TRUE]>>
  /\ policies = <<>>
  /\ bindings = <<>>
  /\ cacheKind = "memory"
  /\ maxSize = MaxSize
  /\ redisUp = TRUE
  /\ cache = EmptyMap
  /\ now = 0
  /\ last = [Returned("New", TRUE) EXCEPT !.warm = FALSE]
  /\ ops = 0
  /\ inflight = Idle

NextHierarchy ==
  \/ \E t \in ResourceTypes, n \in ResourceNames, parentID \in 0..MaxRes,
        a \in AttributeMaps : CreateResourceOf(t, n, parentID, a)
  \/ \E id \in 1..MaxRes, n \in ResourceNames, a \in AttributeMaps :
       UpdateResource(id, n, a)
  \/ \E id \in 1..MaxRes : DeleteResource(id)

SpecHierarchy == InitHierarchy /\ [][NextHierarchy]_vars

\* the row reached from id by following parent_id n times, 0 past a root
RECURSIVE Climb(_, _)
Climb(id, n) ==
  IF id = 0 \/ n = 0 THEN id ELSE Climb(resources[id].parent, n - 1)

\* every walk along parent_id leaves the table within as many steps as the
\* table has rows
Acyclic == \A i \in 1..Len(resources) : Climb(i, Len(resources)) = 0

\* C39: an UpdateResource leaves the number of rows and, in every row, the
\* type, the parent_id and the deleted mark as they were, and changes no
\* other row than the one it names; a CreateResource adds one row under an
\* id no row had and leaves the rows that were there as they were; and in
\* every reachable state the parent relation is acyclic
C39_HierarchyImmutable ==
  /\ [][last'.op = "UpdateResource" /\ ops' = ops + 1 =>
          /\ Len(resources') = Len(resources)
          /\ \A i \in 1..Len(resources) :
               /\ resources'[i].type = resources[i].type
               /\ resources'[i].parent = resources[i].parent
               /\ resources'[i].live = resources[i].live
               /\ i # last'.out.id => resources'[i] = resources[i]]_vars
  /\ [][last'.op = "CreateResource" /\ ops' = ops + 1 =>
          /\ last'.out.id \notin 1..Len(resources)
          /\ Len(resources') = Len(resources) + 1
          /\ \A i \in 1..Len(resources) : resources'[i] = resources[i]]_vars
  /\ []Acyclic

\* an UpdateResource has given a new name and new attributes to a resource
\* that has a parent, in a table that holds a created row
C39_Witness ==
  /\ last.op = "UpdateResource" /\ last.ok
  /\ resources[last.out.id].parent # 0
  /\ resources[last.out.id].name = "b"
  /\ resources[last.out.id].attrs = [region |-> "us"]
  /\ resources[last.out.id].type = "bucket"

(***************************************************************************)
(* Cache keys of principals and permissions that contain ':'.              *)
(***************************************************************************)
KeyPrincipals == {"user:alice", "user:alice:1"}
KeyPermissions == {"read", "2:read"}

InitKeys ==
  /\ resources \in Forests
  /\ roles = <<[perms |-> KeyPermissions, live |-> TRUE]>>
  /\ \E r \in 1..Len(resources) :
       policies = SeedPolicy(r) /\ bindings = SeedBinding(1)
  /\ cacheKind = "memory"
  /\ maxSize = MaxSize
  /\ redisUp = TRUE
  /\ cache = EmptyMap
  /\ now = 0
  /\ last = [Returned("New", TRUE) EXCEPT !.warm = FALSE]
  /\ ops = 0
  /\ inflight = Idle

NextKeys ==
  \/ \E p \in KeyPrincipals, r \in 1..MaxRes, x \in KeyPermissions, c \in Contexts :
       Check(p, r, x, c, 0)
  \/ \E r \in 1..MaxRes : CreateBinding(r, 1, <<"user:alice">>, NoCond)

SpecKeys == InitKeys /\ [][NextKeys]_vars

\* no two triples of a principal, a resource and a permission have one key
KeysDistinct ==
  \A p1, p2 \in KeyPrincipals, r1, r2 \in 1..MaxRes, x1, x2 \in KeyPermissions :
    <<p1, r1, x1>> # <<p2, r2, x2>> =>
      GenerateCacheKey(p1, ResIdString(r1), x1) # GenerateCacheKey(p2, ResIdString(r2), x2)

\* C40, as written: the key is "perm:" + principal + ":" + resource id + ":"
\* + permission, no two distinct triples have the same key, also when the
\* principal or the permission contains ':', and a check is answered true
\* from the cache only for a triple the store grants (the store of SpecKeys
\* loses no grant, so the entry was written for that triple)
C40_AsWritten ==
  /\ \A p \in KeyPrincipals, r \in 1..MaxRes, x \in KeyPermissions :
       GenerateCacheKey(p, ResIdString(r), x)
         = "perm:" \o p \o ":" \o ResIdString(r) \o ":" \o x
  /\ KeysDistinct
  /\ IsCheck /\ last.d.hit => Granted(last.p, last.r, last.x)

\* the keys of the principals and permissions of the other specifications,
\* none of which holds a resource id between two ':', are distinct
C40_PlainKeys ==
  \A p1, p2 \in Principals, r1, r2 \in 1..MaxRes, x1, x2 \in PermNames :
    <<p1, r1, x1>> # <<p2, r2, x2>> =>
      GenerateCacheKey(p1, ResIdString(r1), x1) # GenerateCacheKey(p2, ResIdString(r2), x2)
====
